---------------------------- MODULE Spec2Model ----------------------------
(***************************************************************************)
(* Sensor acquisition subsystem of the STM32L475 FreeRTOS firmware:        *)
(* SensorAcqTask (sensor_acq.c, carried in firmware/src/main.h), its       *)
(* public operations SensorAcq_Init / _GetStats / _ResetStats / _Enable,   *)
(* the hand-off queue xSensorDataQueue and the LSM6DSL register driver     *)
(* (lsm6dsl.c, carried in unnamed/part_000).                               *)
(*                                                                         *)
(* Scheduling.  FreeRTOS runs preemptively (configUSE_PREEMPTION 1) on one *)
(* core and SensorAcqTask has the highest task priority of the build       *)
(* (TASK_PRIORITY_SENSOR = idle+4, every other task idle+3 or lower).  So  *)
(* the acquisition task runs from one blocking call to the next without    *)
(* any other task running, other tasks run only while it is blocked        *)
(* (AcqBlocked), and the acquisition task may preempt another task between *)
(* any two of that task's steps.  The task's position is pc; a pc of       *)
(* AcqBlockingPcs names a blocking call the task is in or about to enter.  *)
(* The task is blocked in vTaskDelayUntil only while its deadline lies in  *)
(* the future, and in a register access only while the caller of           *)
(* SensorAcq_Enable holds xI2CMutex: the HAL transfers poll, so a task     *)
(* inside its own transfer keeps the processor.                            *)
(*                                                                         *)
(* Time.  tick is the FreeRTOS tick count, one tick a millisecond          *)
(* (configTICK_RATE_HZ 1000).  A step of a running task takes less than a  *)
(* tick.  A blocking call that times out returns at the tick of its        *)
(* timeout; while a task is blocked the tick interrupt advances the count  *)
(* (Tick, DrvTick) and the other tasks act at the ticks it passes.  Each   *)
(* specification explores a bounded number of loop iterations (horizon)    *)
(* or of driver calls (MaxDrvCalls).                                       *)
(***************************************************************************)
EXTENDS Integers, Naturals, Sequences, FiniteSets, TLC

(***************************************************************************)
(* Bounds of the model.                                                    *)
(***************************************************************************)
\* Loop iterations of SensorAcqTask explored with the callers of the public
\* operations and the consumer running beside it.
MaxCycles == 4
\* Loop iterations explored with the acquisition task and the consumer only
\* (enough to fill the queue and go on).
MaxSeqCycles == 12
\* Loop iterations explored with the acquisition task alone (enough to fill
\* the queue, have two sends expire on it and start a further cycle).
LiveCycles == 13
\* Loop iterations explored on a healthy bus (two statistics windows).
RateCycles == 201
\* Bus transactions that time out in a run.
MaxTimeouts == 1
\* Loop iterations in which bus transactions fail.
MaxFaultCycles == 6
\* Ticks that pass at a time while a task is blocked: the other tasks act
\* at these ticks of its wait.
TickStep == 5
\* Driver functions called one after another.
MaxDrvCalls == 2

(***************************************************************************)
(* Program constants.                                                      *)
(***************************************************************************)
SENSOR_SAMPLE_RATE_HZ == 100
SENSOR_SAMPLE_PERIOD_MS == 1000 \div SENSOR_SAMPLE_RATE_HZ
SENSOR_MAX_RETRY_COUNT == 3
QueueLength == 10
QueueSendWaitMs == 10
LSM6DSL_TIMEOUT_MS == 100
ResetSettleMs == 10
StatsWindowMs == 1000

\* The tick at which SensorAcqTask starts.  The scheduler starts at tick 0
\* with MainTask alone (main.c lines 100-107); MainTask calls SensorAcq_Init,
\* whose LSM6DSL_Init sleeps ResetSettleMs ticks in vTaskDelay (its register
\* accesses take less than a tick), and then SensorAcq_CreateTask (main.c
\* lines 119-128), and the new task, of higher priority, runs at once.
StartTick == ResetSettleMs

HAL_OK == "HAL_OK"
HAL_ERROR == "HAL_ERROR"
HAL_TIMEOUT == "HAL_TIMEOUT"

SENSOR_ACQ_INIT == "Initializing"
SENSOR_ACQ_RUNNING == "Running"
SENSOR_ACQ_ERROR == "Error"
SENSOR_ACQ_STOPPED == "Stopped"
SensorAcqStates ==
  {SENSOR_ACQ_INIT, SENSOR_ACQ_RUNNING, SENSOR_ACQ_ERROR, SENSOR_ACQ_STOPPED}

VARIABLES
  pc,                 \* position of SensorAcqTask
  ucSensorEnabled,    \* static uint8_t ucSensorEnabled
  xSensorStats,       \* static SensorAcqStats_t xSensorStats
  retry_count,        \* local of SensorAcqTask
  sample_start_time,  \* local of SensorAcqTask (cycle-start tick)
  sensor_data,        \* local of SensorAcqTask (the working sample)
  xSensorDataQueue,   \* the hand-off queue, oldest sample first
  tick,               \* xTaskGetTickCount()
  xLastWakeTime,      \* local of SensorAcqTask, deadline accumulator
  last_stats_update,      \* static of SensorAcq_UpdateStats
  sample_count_in_period, \* static of SensorAcq_UpdateStats
  busFault,           \* environment: TRUE while bus transactions may fail
  timeouts,           \* environment: bus transactions that have timed out
  horizon,            \* loop iterations explored
  apiPc,              \* position of the task calling the public operations
  apiArg,             \* argument of the SensorAcq_Enable call in progress
  apiStatus,          \* status variable of the SensorAcq_Enable call
  snap,               \* copy returned by the last SensorAcq_GetStats
  apiWrite,           \* the register write of SensorAcq_Enable in progress:
                      \*   the tick at which its HAL transfer returns and
                      \*   the status it returns
  cycles,             \* history: loop iterations started
  failRun,            \* history: failed enabled cycles since the last
                      \*   successful cycle or reinitialization attempt
  stable,             \* history: xSensorStats as it stood when the producer
                      \*   last completed a cycle's update
  lastWrite,          \* history: who last wrote a field of xSensorStats,
                      \*   and whether inside a critical section
  reinitFailed,       \* history: the last reinitialization attempt failed
  sendBlockedMs,      \* history: how long the last xQueueSend kept the task
  received,           \* the consumer's copy of the sample it dequeued last
  status,             \* local of SensorAcqTask: status of the last reader
  imu_ready,          \* imu_data.data_ready while SensorAcq_ReadIMU runs
  imu_temperature,    \* imu_data.temperature of SensorAcq_ReadIMU, kept until
                      \*   the other readers have run
  readersCalled,      \* history: the readers called in the running cycle
  drvPc,              \* position of the task calling a driver function
  drvArg,             \* the driver call in progress and its arguments
  regPhase,           \* position inside LSM6DSL_ReadReg / LSM6DSL_WriteReg
  regStatus,          \* status returned by the last register transaction
  regOut,             \* byte delivered by the last register read
  drvStatus,          \* value returned by the driver function
  data_ready,         \* data->data_ready as left by LSM6DSL_ReadData
  xI2CMutex,          \* holder of the bus mutex: "free", "drv", "other", or
                      \*   "api" (the caller of SensorAcq_Enable)
  otherInBus,         \* another bus user is inside its transaction
  busLog,             \* registers transacted by the driver call in progress
  accel_sensitivity,  \* static float accel_sensitivity, in ug/LSB
  gyro_sensitivity,   \* static float gyro_sensitivity, in udps/LSB
  busFailure,         \* history: status of the bus operation that failed
                      \*   in the driver call in progress, or "none"
  selected,           \* history: the coefficients selected by the last
                      \*   successful LSM6DSL_Init, or <<>>
  raw_data,           \* LSM6DSL_ReadData: the 14 bytes of the burst read
  imu_data,           \* the caller's LSM6DSL_Data_t filled by LSM6DSL_ReadData
  written,            \* history: the mode bytes the current call has written
                      \*   to CTRL1_XL and CTRL2_G, in order
  statsCall,          \* one call of SensorAcq_UpdateStats with 32-bit ticks:
                      \*   its argument, the two statics and the rate
  blockedAt,          \* the tick at which SensorAcqTask entered the vTaskDelay
                      \*   or the xQueueSend it is blocked in (0 outside)
  drvBlockedAt,       \* the tick at which the caller of the driver entered
                      \*   the xSemaphoreTake or the vTaskDelay it is blocked
                      \*   in (0 outside)
  otherUntil,         \* the tick at which the HAL transfer of the other bus
                      \*   user returns (0 with no transfer)
  drvCalls            \* history: driver functions called so far

acqVars == <<pc, ucSensorEnabled, xSensorStats, retry_count, sample_start_time,
             sensor_data, xSensorDataQueue, tick, xLastWakeTime, last_stats_update,
             sample_count_in_period>>
apiVars == <<apiPc, apiArg, apiStatus, snap, apiWrite>>
histVars == <<cycles, failRun, stable, lastWrite, reinitFailed, sendBlockedMs>>
envVars == <<busFault, timeouts, horizon>>
\* The driver's variables but the mutex.
drvRest == <<drvPc, drvArg, regPhase, regStatus, regOut, drvStatus, data_ready,
             otherInBus, busLog, accel_sensitivity, gyro_sensitivity,
             busFailure, selected, raw_data, imu_data, written,
             drvBlockedAt, otherUntil, drvCalls>>
drvVars == <<drvRest, xI2CMutex>>
cycVars == <<status, imu_ready, imu_temperature, readersCalled>>
\* The acquisition task's variables but the tick.
acqRest == <<pc, ucSensorEnabled, xSensorStats, retry_count, sample_start_time,
             sensor_data, xSensorDataQueue, xLastWakeTime, last_stats_update,
             sample_count_in_period>>
vars == <<acqVars, envVars, apiVars, histVars, received, drvVars, cycVars,
          statsCall, blockedAt>>

(***************************************************************************)
(* Values.                                                                 *)
(***************************************************************************)
\* memset(&xSensorStats, 0, ...): SENSOR_ACQ_INIT is enumerator 0.  The rate
\* (a float) is kept as the exact quotient <<numerator, denominator>>.
ZeroStats ==
  [total_samples |-> 0, error_count |-> 0, last_sample_time |-> 0,
   sample_rate |-> <<0, 1>>, state |-> SENSOR_ACQ_INIT]

NoSnap == [taken |-> FALSE]

\* No register write of SensorAcq_Enable is in progress.
NoWrite == [active |-> FALSE, until |-> 0, status |-> HAL_OK]

\* Outcomes of one register transaction (LSM6DSL_ReadReg / LSM6DSL_WriteReg):
\* HAL_TIMEOUT when xI2CMutex is not obtained within LSM6DSL_TIMEOUT_MS or the
\* HAL transfer times out, HAL_ERROR on a transport error.
\* At most MaxTimeouts transactions time out, all of them up to the first
\* reinitialization (the first SENSOR_MAX_RETRY_COUNT loop iterations).  A
\* transfer of SensorAcq_Enable that is going to time out counts from the
\* moment it begins.
TimeoutsPending ==
  IF xI2CMutex = "api" /\ apiWrite.status = HAL_TIMEOUT THEN 1 ELSE 0
TimeoutExplored ==
  /\ timeouts + TimeoutsPending < MaxTimeouts
  /\ cycles <= SENSOR_MAX_RETRY_COUNT
FaultExplored == busFault /\ cycles <= MaxFaultCycles
BusOutcomes ==
  IF FaultExplored
    THEN {HAL_OK, HAL_ERROR} \cup
           (IF TimeoutExplored THEN {HAL_TIMEOUT} ELSE {})
    ELSE {HAL_OK}

\* Ticks a register transaction takes: HAL_TIMEOUT is returned only when the
\* wait for xI2CMutex or the HAL transfer has lasted LSM6DSL_TIMEOUT_MS
\* (lines 232-235 and 259-262 of the driver); the other outcomes take less
\* than a tick.
BusElapsed(r) == IF r = HAL_TIMEOUT THEN LSM6DSL_TIMEOUT_MS ELSE 0
CountTimeout(r) == IF r = HAL_TIMEOUT THEN timeouts + 1 ELSE timeouts

\* xSemaphoreTake(xI2CMutex, 100 ms) called by SensorAcqTask (lines 232 and
\* 258): the ticks the task stays blocked.  The caller of SensorAcq_Enable
\* holds the mutex until its HAL transfer returns and gives it then.
MutexWait ==
  IF xI2CMutex = "api" /\ apiWrite.until > tick
    THEN apiWrite.until - tick ELSE 0

\* One call of LSM6DSL_ReadReg / LSM6DSL_WriteReg by SensorAcqTask (lines
\* 227-270): its status, the tick at which it returns, the transactions that
\* have timed out by then and the holder of the mutex.  When the mutex is
\* obtained within LSM6DSL_TIMEOUT_MS the transfer follows the wait and the
\* mutex is free at the return; otherwise HAL_TIMEOUT is returned with no
\* transfer made.
RegAccess ==
  IF MutexWait >= LSM6DSL_TIMEOUT_MS
    THEN {[status |-> HAL_TIMEOUT, tick |-> tick + LSM6DSL_TIMEOUT_MS,
           timeouts |-> CountTimeout(HAL_TIMEOUT), mutex |-> xI2CMutex]}
    ELSE {[status |-> r, tick |-> tick + MutexWait + BusElapsed(r),
           timeouts |-> CountTimeout(r) + TimeoutsPending,
           mutex |-> "free"] : r \in BusOutcomes}
\* The identity register's content: the device's or, on a faulty bus, another.
WhoAmIValues == IF FaultExplored THEN {106, 0} ELSE {106}
LSM6DSL_WHO_AM_I_VALUE == 106

\* A readiness test on any of the three status bits; C12_ReadDataReady tells
\* it from the code's.
DataReadyAnyBit(status_reg) == (status_reg % 8) # 0

\* Status register values: XLDA 0x01, GDA 0x02, TDA 0x04.
\* The data-available bits of the status register (lsm6dsl.h lines 125-126).
LSM6DSL_STATUS_GDA == 2
LSM6DSL_STATUS_XLDA == 1
StatusValues == {0, 1, 2, 3, 4}
DataReady(status_reg) == (status_reg % 4) # 0

\* memset(&sensor_data, 0, ...): motion tells whether the IMU axes were copied.
\* The temperature is kept in 1/2560 degree C.
ZeroSample ==
  [timestamp |-> 0, motion |-> FALSE, temperature |-> 0, data_valid |-> 0]

\* LSM6DSL_ReadData line 135, raw / 256 + 25 degree C, for the raw words the
\* burst delivers here: -6400 decodes to exactly 0.0.
ImuRawTemps == {-6400, 0}
ImuTemperature(raw_temp) == (25 * 256 + raw_temp) * 10

\* SensorAcq_ReadIMU lines 389-391: the motion temperature is copied unless
\* it is exactly 0.0.
CopyTemperature(temperature, imu_temp) ==
  IF imu_temp # 0 THEN imu_temp ELSE temperature

\* SensorAcq_ReadHumidity line 424: 22.0 + (rand() % 100 - 50) / 10.0.
HumidityDefault(rnd) == (220 + ((rnd % 100) - 50)) * 256

\* A humidity reader that writes its default temperature over whatever the
\* sample holds; C33_TemperatureSource tells it from the code's.
ReadHumidityOverwrites(temperature, rnd) == HumidityDefault(rnd)

\* SensorAcq_ReadHumidity lines 423-425: a temperature still 0.0 becomes
\* the default; RandValues are the draws of rand() looked at.
RandValues == {50}
ReadHumidityTemperature(temperature, rnd) ==
  IF temperature = 0 THEN HumidityDefault(rnd) ELSE temperature

Max(a, b) == IF a > b THEN a ELSE b

\* A deadline counted from the present tick (a relative sleep);
\* C31_NoDrift tells it from the code's.
NextWakeRelative(last_wake, now) == now + SENSOR_SAMPLE_PERIOD_MS

\* vTaskDelayUntil: the deadline is the previous deadline plus the period.
NextWake(last_wake, now) == last_wake + SENSOR_SAMPLE_PERIOD_MS

(***************************************************************************)
(* Scheduling.                                                             *)
(***************************************************************************)
\* Positions at which SensorAcqTask calls LSM6DSL_ReadReg / LSM6DSL_WriteReg.
BusPcs ==
  {"imu_status", "imu_burst", "init_whoami", "init_reset", "init_xl",
   "init_g", "init_bdu"}

\* Positions at which SensorAcqTask is inside (or entering) a blocking call:
\* a register transaction, vTaskDelay, xQueueSend on a full queue,
\* vTaskDelayUntil.
AcqBlockingPcs == BusPcs \cup {"send_wait", "init_delay", "delay"}

\* A sender that waits twice the configured bound; C6_ProducerNeverStalls
\* tells it from the code's.
SendWaitDoubled == 2 * QueueSendWaitMs

\* Line 334, pdMS_TO_TICKS(10): the ticks xQueueSend waits on a full queue.
SendWait == QueueSendWaitMs

\* The tick at which the blocking call SensorAcqTask is in returns at the
\* latest: the deadline of vTaskDelayUntil, the end of vTaskDelay, the expiry
\* of xQueueSend's wait, or the return of the HAL transfer for which the
\* caller of SensorAcq_Enable holds the mutex.
WakeTime ==
  CASE pc = "delay" -> NextWake(xLastWakeTime, tick)
    [] pc = "init_delay" -> blockedAt + ResetSettleMs
    [] pc = "send_wait" -> blockedAt + SendWait
    [] OTHER -> apiWrite.until

\* Another task runs only while the highest-priority task is blocked: in
\* vTaskDelayUntil and vTaskDelay until the wake tick, in xQueueSend while
\* the queue is full and the wait has not expired, and in a register
\* transaction only in xSemaphoreTake on a mutex that is held.
AcqBlocked ==
  /\ pc \in AcqBlockingPcs
  /\ tick < WakeTime
  /\ pc \in BusPcs => xI2CMutex = "api"
  /\ pc = "send_wait" => Len(xSensorDataQueue) = QueueLength

Min(a, b) == IF a < b THEN a ELSE b

\* The tick interrupt (configTICK_RATE_HZ 1000, one tick a millisecond)
\* while SensorAcqTask is blocked: the tick count advances, TickStep ticks
\* at a time, up to the tick at which the task is made ready.  While the
\* task runs, the ticks that pass are those of its blocking calls.
Tick ==
  /\ AcqBlocked
  /\ tick' = Min(tick + TickStep, WakeTime)
  /\ UNCHANGED <<acqRest, envVars, apiVars, histVars, received, drvVars,
                 cycVars, statsCall, blockedAt>>

\* A write to xSensorStats made outside / inside taskENTER_CRITICAL.
Wrote(who, critical) == [by |-> who, crit |-> critical]

(***************************************************************************)
(* SensorAcq_UpdateStats(sample_time): the statistics and the two statics  *)
(* after the call.  A tick is a uint32_t, kept here as its two 16-bit      *)
(* halves so that the difference keeps its width of 32 bits.               *)
(***************************************************************************)
Half == 65536
ToU32(n) == [hi |-> n \div Half, lo |-> n % Half]
FromU32(u) == u.hi * Half + u.lo

\* A difference that is 0 when the minuend is the smaller tick;
\* C39_WindowAcrossWrap tells it from the code's.
TickDiffClamped(a, b) ==
  IF a.hi < b.hi \/ (a.hi = b.hi /\ a.lo < b.lo)
    THEN [hi |-> 0, lo |-> 0]
    ELSE LET lo == a.lo - b.lo
             hi == a.hi - b.hi - (IF lo < 0 THEN 1 ELSE 0)
         IN  [hi |-> hi, lo |-> IF lo < 0 THEN lo + Half ELSE lo]

\* sample_time - last_stats_update (lines 444 and 446): the difference of
\* two uint32_t, modulo 2^32.
TickDiff(a, b) ==
  LET lo == a.lo - b.lo
      hi == a.hi - b.hi - (IF lo < 0 THEN 1 ELSE 0)
  IN  [hi |-> IF hi < 0 THEN hi + Half ELSE hi,
       lo |-> IF lo < 0 THEN lo + Half ELSE lo]

\* Line 444: the difference is at least one statistics window.
WindowElapsed(dt) == dt.hi > 0 \/ dt.lo >= StatsWindowMs

\* An update that closes a window without clearing its counter;
\* C30_StatsUpdate tells it from the code's.
UpdateStatsKeepsCount(st, lsu, cnt, sample_time) ==
  LET cnt1 == cnt + 1
      st1 == [st EXCEPT !.total_samples = @ + 1,
                        !.last_sample_time = sample_time]
      dt == TickDiff(ToU32(sample_time), ToU32(lsu))
  IN  IF WindowElapsed(dt)
        THEN [stats |-> [st1 EXCEPT
                           !.sample_rate = <<cnt1 * 1000, FromU32(dt)>>],
              last_stats_update |-> sample_time,
              sample_count_in_period |-> cnt1]
        ELSE [stats |-> st1,
              last_stats_update |-> lsu,
              sample_count_in_period |-> cnt1]

\* SensorAcq_UpdateStats lines 438-449.
UpdateStats(st, lsu, cnt, sample_time) ==
  LET cnt1 == cnt + 1
      st1 == [st EXCEPT !.total_samples = @ + 1,
                        !.last_sample_time = sample_time]
      dt == TickDiff(ToU32(sample_time), ToU32(lsu))
  IN  IF WindowElapsed(dt)
        THEN [stats |-> [st1 EXCEPT
                           !.sample_rate = <<cnt1 * 1000, FromU32(dt)>>],
              last_stats_update |-> sample_time,
              sample_count_in_period |-> 0]
        ELSE [stats |-> st1,
              last_stats_update |-> lsu,
              sample_count_in_period |-> cnt1]

\* No call of SensorAcq_UpdateStats is looked at on its own.
Zero32 == [hi |-> 0, lo |-> 0]
NoStatsCall ==
  [called |-> TRUE, sample_time |-> Zero32, elapsed |-> Zero32,
   last_stats_update |-> Zero32, sample_count_in_period |-> 0,
   recomputed |-> FALSE, sample_rate |-> <<0, ToU32(1)>>]

\* sample_time = last_stats_update + elapsed, modulo 2^32.
TickAfter(t, elapsed) ==
  LET lo == t.lo + elapsed.lo
      hi == t.hi + elapsed.hi + (IF lo >= Half THEN 1 ELSE 0)
  IN  [hi |-> hi % Half, lo |-> lo % Half]

\* The calls looked at: the static anywhere in the 32-bit range, next to
\* the wrap-around and next to 2^31, and the ticks elapsed since it was
\* stored around one window, around 2^16 and up to just below 2^32.
StatsTicks ==
  {[hi |-> h, lo |-> l] :
     h \in {0, 32767, 32768, 65535}, l \in {0, 1, 999, 64536, 65535}}
StatsElapsed ==
  {[hi |-> h, lo |-> l] :
     h \in {0, 1, 65535}, l \in {0, 1, 999, 1000, 1001, 65535}}
StatsCalls ==
  {[called |-> FALSE, sample_time |-> TickAfter(t, e), elapsed |-> e,
    last_stats_update |-> t, sample_count_in_period |-> c,
    recomputed |-> FALSE, sample_rate |-> <<0, ToU32(1)>>] :
     t \in StatsTicks, e \in StatsElapsed, c \in {0, 1}}

\* SensorAcq_UpdateStats lines 441-449 on 32-bit ticks: the counter of the
\* period, the window test, the rate and the two statics.
StatsCallStep ==
  /\ ~statsCall.called
  /\ LET cnt1 == statsCall.sample_count_in_period + 1
         dt == TickDiff(statsCall.sample_time, statsCall.last_stats_update)
     IN  statsCall' =
           IF WindowElapsed(dt)
             THEN [statsCall EXCEPT
                     !.called = TRUE,
                     !.recomputed = TRUE,
                     !.sample_rate = <<cnt1 * 1000, dt>>,
                     !.last_stats_update = statsCall.sample_time,
                     !.sample_count_in_period = 0]
             ELSE [statsCall EXCEPT
                     !.called = TRUE,
                     !.sample_count_in_period = cnt1]
  /\ UNCHANGED <<acqVars, envVars, apiVars, histVars, received, drvVars,
                 cycVars, blockedAt>>

(***************************************************************************)
(* SensorAcqTask.                                                          *)
(***************************************************************************)
\* Lines 302-306: the task's prologue.
AcqStart ==
  /\ pc = "start"
  /\ xLastWakeTime' = tick
  /\ xSensorStats' = [xSensorStats EXCEPT !.state = SENSOR_ACQ_RUNNING]
  /\ ucSensorEnabled' = 1
  /\ pc' = "loop"
  /\ lastWrite' = Wrote("acq", FALSE)
  /\ stable' = xSensorStats'
  /\ UNCHANGED <<retry_count, sample_start_time, sensor_data, xSensorDataQueue,
                 tick, last_stats_update, sample_count_in_period, envVars,
                 received, drvVars, statsCall, blockedAt, cycVars, apiVars,
                 cycles, failRun, reinitFailed, sendBlockedMs>>

\* A loop body that samples whatever the enabled flag; C14_DisabledCycle
\* tells it from the code's.
LoopBodyAlways ==
  /\ sample_start_time' = tick
  /\ sensor_data' = [ZeroSample EXCEPT !.timestamp = tick]
  /\ readersCalled' = <<>>
  /\ pc' = "imu_status"

\* Lines 309-315: top of the loop.  A disabled cycle goes straight to the
\* periodic wait.
LoopBody ==
  IF ucSensorEnabled # 0
    THEN /\ sample_start_time' = tick
         /\ sensor_data' = [ZeroSample EXCEPT !.timestamp = tick]
         /\ readersCalled' = <<>>
         /\ pc' = "imu_status"
    ELSE /\ pc' = "delay"
         /\ UNCHANGED <<sample_start_time, sensor_data, readersCalled>>

AcqLoopTop ==
  /\ pc = "loop"
  /\ LoopBody
  /\ UNCHANGED <<ucSensorEnabled, xSensorStats, retry_count, xSensorDataQueue,
                 tick, xLastWakeTime, last_stats_update,
                 sample_count_in_period, envVars, received, drvVars, statsCall,
                 blockedAt, status, imu_ready, imu_temperature, apiVars,
                 histVars>>

\* A task that calls the pressure reader whatever the motion read returned;
\* C27_ReaderSequence tells it from the code's.
AcqImuStatusNoShortCircuit ==
  /\ pc = "imu_status"
  /\ \E b \in RegAccess, status_reg \in StatusValues :
       /\ tick' = b.tick
       /\ timeouts' = b.timeouts
       /\ xI2CMutex' = b.mutex
       /\ IF b.status # HAL_OK
            THEN /\ status' = b.status /\ imu_ready' = 0 /\ pc' = "fail"
                 /\ readersCalled' = readersCalled \o <<"motion", "pressure">>
            ELSE /\ readersCalled' = Append(readersCalled, "motion")
                 /\ IF DataReady(status_reg)
                      THEN UNCHANGED status /\ imu_ready' = 1 /\ pc' = "imu_burst"
                      ELSE status' = HAL_OK /\ imu_ready' = 0 /\ pc' = "readers"
  /\ imu_temperature' = 0
  /\ UNCHANGED <<ucSensorEnabled, xSensorStats, retry_count, sample_start_time,
                 sensor_data, xSensorDataQueue, xLastWakeTime,
                 last_stats_update, sample_count_in_period, busFault, horizon,
                 received, drvRest, statsCall, blockedAt, apiVars, histVars>>

\* SensorAcq_ReadIMU -> LSM6DSL_ReadData, lines 109-118 of the driver: the
\* status read.  A failed read returns its status; no data ready is HAL_OK
\* with nothing copied (main.h lines 392-395).
AcqImuStatus ==
  /\ pc = "imu_status"
  /\ readersCalled' = Append(readersCalled, "motion")
  /\ \E b \in RegAccess, status_reg \in StatusValues :
       /\ tick' = b.tick
       /\ timeouts' = b.timeouts
       /\ xI2CMutex' = b.mutex
       /\ IF b.status # HAL_OK
            THEN status' = b.status /\ imu_ready' = 0 /\ pc' = "fail"
            ELSE IF DataReady(status_reg)
              THEN UNCHANGED status /\ imu_ready' = 1 /\ pc' = "imu_burst"
              ELSE status' = HAL_OK /\ imu_ready' = 0 /\ pc' = "readers"
  /\ imu_temperature' = 0
  /\ UNCHANGED <<ucSensorEnabled, xSensorStats, retry_count, sample_start_time,
                 sensor_data, xSensorDataQueue, xLastWakeTime,
                 last_stats_update, sample_count_in_period, busFault, horizon,
                 received, drvRest, statsCall, blockedAt, apiVars, histVars>>

\* A burst read whose data are copied whatever its status; C21_NotForwarded
\* tells it from the code's.
AcqImuBurstCopies ==
  /\ pc = "imu_burst"
  /\ \E b \in RegAccess :
       /\ tick' = b.tick
       /\ timeouts' = b.timeouts
       /\ xI2CMutex' = b.mutex
       /\ status' = b.status
       /\ sensor_data' = [sensor_data EXCEPT !.motion = TRUE]
       /\ pc' = IF b.status = HAL_OK THEN "readers" ELSE "fail"
  /\ imu_ready' = 0
  /\ UNCHANGED imu_temperature
  /\ UNCHANGED <<ucSensorEnabled, xSensorStats, retry_count, sample_start_time,
                 xSensorDataQueue, xLastWakeTime, last_stats_update,
                 sample_count_in_period, busFault, horizon, received, drvRest,
                 statsCall, blockedAt, readersCalled, apiVars, histVars>>

\* LSM6DSL_ReadData lines 120-151 and SensorAcq_ReadIMU lines 377-392: the
\* 14-byte burst read; the axes are copied only after a successful read.
AcqImuBurst ==
  /\ pc = "imu_burst"
  /\ \E b \in RegAccess :
       /\ tick' = b.tick
       /\ timeouts' = b.timeouts
       /\ xI2CMutex' = b.mutex
       /\ status' = b.status
       /\ IF b.status = HAL_OK
            THEN /\ \E raw_temp \in ImuRawTemps :
                      imu_temperature' = ImuTemperature(raw_temp)
                 /\ sensor_data' =
                      [sensor_data EXCEPT
                         !.motion = TRUE,
                         !.temperature =
                            CopyTemperature(@, imu_temperature')]
                 /\ pc' = "readers"
            ELSE /\ UNCHANGED <<sensor_data, imu_temperature>>
                 /\ pc' = "fail"
  /\ imu_ready' = 0
  /\ UNCHANGED <<ucSensorEnabled, xSensorStats, retry_count, sample_start_time,
                 xSensorDataQueue, xLastWakeTime, last_stats_update,
                 sample_count_in_period, busFault, horizon, received, drvRest,
                 statsCall, blockedAt, readersCalled, apiVars, histVars>>

\* A success branch that leaves the consecutive-failure counter as it is;
\* C25_NotReadyIsSuccess tells it from the code's.
AcqReadersKeepsRetry ==
  /\ pc = "readers"
  /\ readersCalled' = readersCalled \o <<"pressure", "humidity">>
  /\ status' = HAL_OK
  /\ \E rnd \in RandValues :
       sensor_data' = [sensor_data EXCEPT
                         !.temperature = ReadHumidityTemperature(@, rnd),
                         !.data_valid = 1]
  /\ imu_temperature' = 0
  /\ pc' = "send"
  /\ UNCHANGED <<ucSensorEnabled, xSensorStats, retry_count, sample_start_time,
                 xSensorDataQueue, tick, xLastWakeTime, last_stats_update,
                 sample_count_in_period, envVars, received, drvVars, statsCall,
                 blockedAt, imu_ready, apiVars, histVars>>

\* Lines 319-331: the simulated pressure and humidity readers, called in
\* this order, always return HAL_OK; then data_valid = 1 and retry_count = 0.
AcqReaders ==
  /\ pc = "readers"
  /\ readersCalled' = readersCalled \o <<"pressure", "humidity">>
  /\ status' = HAL_OK
  /\ \E rnd \in RandValues :
       sensor_data' = [sensor_data EXCEPT
                         !.temperature = ReadHumidityTemperature(@, rnd),
                         !.data_valid = 1]
  /\ imu_temperature' = 0
  /\ retry_count' = 0
  /\ failRun' = 0
  /\ pc' = "send"
  /\ UNCHANGED <<ucSensorEnabled, xSensorStats, sample_start_time,
                 xSensorDataQueue, tick, xLastWakeTime, last_stats_update,
                 sample_count_in_period, envVars, received, drvVars, statsCall,
                 blockedAt, imu_ready, apiVars, cycles, stable, lastWrite,
                 reinitFailed, sendBlockedMs>>

\* What the consumer reads of a queued copy of sensor_data.
Queued(sd) == [timestamp |-> sd.timestamp, data_valid |-> sd.data_valid]

\* A queue that takes a new item in front of the waiting ones;
\* C15_QueueOrder tells it from the code's.
EnqueueFront(queue, item) == <<item>> \o queue

\* Line 334, xQueueSend (xQueueSendToBack): the item is copied behind the
\* items waiting in the queue.
Enqueue(queue, item) == Append(queue, item)

\* Line 334, xQueueSend: a queue with room takes the copy at once; on a full
\* queue the task blocks, from this tick, for at most QueueSendWaitMs.
AcqSend ==
  /\ pc = "send"
  /\ IF Len(xSensorDataQueue) < QueueLength
       THEN /\ xSensorDataQueue' =
                 Enqueue(xSensorDataQueue, Queued(sensor_data))
            /\ sendBlockedMs' = 0
            /\ pc' = "update"
            /\ UNCHANGED blockedAt
       ELSE /\ UNCHANGED <<xSensorDataQueue, sendBlockedMs>>
            /\ blockedAt' = tick
            /\ pc' = "send_wait"
  /\ UNCHANGED <<ucSensorEnabled, xSensorStats, retry_count, sample_start_time,
                 sensor_data, tick, xLastWakeTime, last_stats_update,
                 sample_count_in_period, envVars, received, drvVars, statsCall,
                 cycVars, apiVars, cycles, failRun, stable, lastWrite,
                 reinitFailed>>

\* The consumer has made room within the wait: the blocked sender is made
\* ready at the tick of the receive, copies its item and returns; it has
\* been blocked from blockedAt to this tick.
AcqSendWake ==
  /\ pc = "send_wait"
  /\ Len(xSensorDataQueue) < QueueLength
  /\ xSensorDataQueue' = Enqueue(xSensorDataQueue, Queued(sensor_data))
  /\ sendBlockedMs' = tick - blockedAt
  /\ blockedAt' = 0
  /\ pc' = "update"
  /\ UNCHANGED <<ucSensorEnabled, xSensorStats, retry_count, sample_start_time,
                 sensor_data, tick, xLastWakeTime, last_stats_update,
                 sample_count_in_period, envVars, received, drvVars, statsCall,
                 cycVars, apiVars, cycles, failRun, stable, lastWrite,
                 reinitFailed>>

\* A task that treats the expired wait as a failed read; C5_FailedEnqueue
\* tells it from the code's.
AcqSendTimeoutAsFault ==
  /\ pc = "send_wait"
  /\ Len(xSensorDataQueue) = QueueLength
  /\ tick' = blockedAt + SendWait
  /\ sendBlockedMs' = tick' - blockedAt
  /\ blockedAt' = 0
  /\ pc' = "fail"
  /\ UNCHANGED <<ucSensorEnabled, xSensorStats, retry_count, sample_start_time,
                 sensor_data, xSensorDataQueue, xLastWakeTime,
                 last_stats_update, sample_count_in_period, envVars, received,
                 drvVars, statsCall, cycVars, apiVars, cycles, failRun, stable,
                 lastWrite, reinitFailed>>

\* Lines 334-337: the wait expires, SendWait ticks after the call, with the
\* queue still full; xQueueSend returns errQUEUE_FULL and the error counter
\* is incremented.
AcqSendTimeout ==
  /\ pc = "send_wait"
  /\ Len(xSensorDataQueue) = QueueLength
  /\ tick' = blockedAt + SendWait
  /\ xSensorStats' = [xSensorStats EXCEPT !.error_count = @ + 1]
  /\ lastWrite' = Wrote("acq", FALSE)
  /\ sendBlockedMs' = tick' - blockedAt
  /\ blockedAt' = 0
  /\ pc' = "update"
  /\ UNCHANGED <<ucSensorEnabled, retry_count, sample_start_time, sensor_data,
                 xSensorDataQueue, xLastWakeTime, last_stats_update,
                 sample_count_in_period, envVars, received, drvVars, statsCall,
                 cycVars, apiVars, cycles, failRun, stable, reinitFailed>>

\* A task that updates the statistics only when the sample was enqueued;
\* C37_CountsSuccessfulCycles tells it from the code's.
AcqUpdateIfEnqueued ==
  /\ pc = "update"
  /\ LET u == UpdateStats(xSensorStats, last_stats_update,
                          sample_count_in_period, sample_start_time)
     IN  IF sendBlockedMs < SendWait
           THEN /\ xSensorStats' = u.stats
                /\ last_stats_update' = u.last_stats_update
                /\ sample_count_in_period' = u.sample_count_in_period
           ELSE UNCHANGED <<xSensorStats, last_stats_update,
                            sample_count_in_period>>
  /\ lastWrite' = Wrote("acq", FALSE)
  /\ stable' = xSensorStats'
  /\ pc' = "delay"
  /\ UNCHANGED <<ucSensorEnabled, retry_count, sample_start_time, sensor_data,
                 xSensorDataQueue, tick, xLastWakeTime, envVars, received,
                 drvVars, statsCall, blockedAt, cycVars, apiVars, cycles,
                 failRun, reinitFailed, sendBlockedMs>>

\* Line 340: SensorAcq_UpdateStats(sample_start_time); the cycle is complete.
AcqUpdate ==
  /\ pc = "update"
  /\ LET u == UpdateStats(xSensorStats, last_stats_update,
                          sample_count_in_period, sample_start_time)
     IN  /\ xSensorStats' = u.stats
         /\ last_stats_update' = u.last_stats_update
         /\ sample_count_in_period' = u.sample_count_in_period
  /\ lastWrite' = Wrote("acq", FALSE)
  /\ stable' = xSensorStats'
  /\ pc' = "delay"
  /\ UNCHANGED <<ucSensorEnabled, retry_count, sample_start_time, sensor_data,
                 xSensorDataQueue, tick, xLastWakeTime, envVars, received,
                 drvVars, statsCall, blockedAt, cycVars, apiVars, cycles,
                 failRun, reinitFailed, sendBlockedMs>>

\* A threshold test that fires one failure early; C1_ThresholdRecovery tells
\* it from the code's.
RetryExceededEarly(n) == n >= SENSOR_MAX_RETRY_COUNT - 1

\* A threshold test that fires one failure late; C34_CounterBounded tells it
\* from the code's.
RetryExceededLate(n) == n > SENSOR_MAX_RETRY_COUNT

\* Line 346: the threshold test on the consecutive-failure counter.
RetryExceeded(n) == n >= SENSOR_MAX_RETRY_COUNT

\* Lines 341-349: a read failed.  Both counters are incremented; at the
\* threshold the state becomes Error, the counter is cleared and
\* SensorAcq_Init is called in the same cycle.
AcqFail ==
  /\ pc = "fail"
  /\ LET n == retry_count + 1
         st1 == [xSensorStats EXCEPT !.error_count = @ + 1]
     IN  IF RetryExceeded(n)
           THEN /\ xSensorStats' = [st1 EXCEPT !.state = SENSOR_ACQ_ERROR]
                /\ retry_count' = 0
                /\ failRun' = 0
                /\ pc' = "reinit"
                /\ UNCHANGED stable
           ELSE /\ xSensorStats' = st1
                /\ retry_count' = n
                /\ failRun' = failRun + 1
                /\ pc' = "delay"
                /\ stable' = xSensorStats'
  /\ lastWrite' = Wrote("acq", FALSE)
  /\ UNCHANGED <<ucSensorEnabled, sample_start_time, sensor_data,
                 xSensorDataQueue, tick, xLastWakeTime, last_stats_update,
                 sample_count_in_period, envVars, received, drvVars, statsCall,
                 blockedAt, cycVars, apiVars, cycles, reinitFailed,
                 sendBlockedMs>>

\* SensorAcq_Init lines 238-246: the statistics are cleared with memset and
\* the state set to SENSOR_ACQ_INIT before the driver is initialised.
InitClearStats(st) == [ZeroStats EXCEPT !.state = SENSOR_ACQ_INIT]

AcqReinit ==
  /\ pc = "reinit"
  /\ xSensorStats' = InitClearStats(xSensorStats)
  /\ lastWrite' = Wrote("init", FALSE)
  /\ reinitFailed' = FALSE
  /\ pc' = "init_whoami"
  /\ UNCHANGED <<ucSensorEnabled, retry_count, sample_start_time, sensor_data,
                 xSensorDataQueue, tick, xLastWakeTime, last_stats_update,
                 sample_count_in_period, envVars, received, drvVars, statsCall,
                 blockedAt, cycVars, apiVars, cycles, failRun, stable,
                 sendBlockedMs>>

\* LSM6DSL_Init lines 45-48: the identity read; a failed read and a wrong
\* identity both return HAL_ERROR.
AcqInitWhoAmI ==
  /\ pc = "init_whoami"
  /\ \E b \in RegAccess, who_am_i \in WhoAmIValues :
       /\ tick' = b.tick
       /\ timeouts' = b.timeouts
       /\ xI2CMutex' = b.mutex
       /\ pc' = IF b.status # HAL_OK \/ who_am_i # LSM6DSL_WHO_AM_I_VALUE
                  THEN "init_failed" ELSE "init_reset"
  /\ UNCHANGED <<ucSensorEnabled, xSensorStats, retry_count, sample_start_time,
                 sensor_data, xSensorDataQueue, xLastWakeTime,
                 last_stats_update, sample_count_in_period, busFault, horizon,
                 received, drvRest, statsCall, blockedAt, cycVars, apiVars,
                 histVars>>

\* One register write of LSM6DSL_Init: on failure the status is returned,
\* otherwise initialisation goes on at `next'.  After the soft reset the
\* task enters vTaskDelay at the tick the write returns.
InitWrite(here, next) ==
  /\ pc = here
  /\ \E b \in RegAccess :
       /\ tick' = b.tick
       /\ timeouts' = b.timeouts
       /\ xI2CMutex' = b.mutex
       /\ pc' = IF b.status # HAL_OK THEN "init_failed" ELSE next
       /\ blockedAt' = IF b.status = HAL_OK /\ next = "init_delay"
                          THEN b.tick ELSE blockedAt
  /\ UNCHANGED <<ucSensorEnabled, xSensorStats, retry_count, sample_start_time,
                 sensor_data, xSensorDataQueue, xLastWakeTime,
                 last_stats_update, sample_count_in_period, busFault, horizon,
                 received, drvRest, statsCall, cycVars, apiVars, histVars>>

\* LSM6DSL_Init lines 51-54: LSM6DSL_SoftReset.
AcqInitReset == InitWrite("init_reset", "init_delay")

\* LSM6DSL_Init line 57: vTaskDelay(pdMS_TO_TICKS(10)) returns ResetSettleMs
\* ticks after the call.
AcqInitDelay ==
  /\ pc = "init_delay"
  /\ tick' = blockedAt + ResetSettleMs
  /\ blockedAt' = 0
  /\ pc' = "init_xl"
  /\ UNCHANGED <<ucSensorEnabled, xSensorStats, retry_count, sample_start_time,
                 sensor_data, xSensorDataQueue, xLastWakeTime,
                 last_stats_update, sample_count_in_period, envVars, received,
                 drvVars, statsCall, cycVars, apiVars, histVars>>

\* LSM6DSL_Init lines 59-78: CTRL1_XL, CTRL2_G and CTRL3_C (BDU).
AcqInitXl == InitWrite("init_xl", "init_g")
AcqInitG == InitWrite("init_g", "init_bdu")
AcqInitBdu == InitWrite("init_bdu", "init_ok")

\* A task that stops for good when the reinitialization fails, as MainTask
\* does through Error_Handler; C20_TaskNeverHalts tells it from the code's.
AcqInitFailedHalts ==
  /\ pc = "init_failed"
  /\ xSensorStats' = [xSensorStats EXCEPT !.state = SENSOR_ACQ_ERROR]
  /\ lastWrite' = Wrote("init", FALSE)
  /\ reinitFailed' = TRUE
  /\ stable' = xSensorStats'
  /\ pc' = "halted"
  /\ UNCHANGED <<ucSensorEnabled, retry_count, sample_start_time, sensor_data,
                 xSensorDataQueue, tick, xLastWakeTime, last_stats_update,
                 sample_count_in_period, envVars, received, drvVars, statsCall,
                 blockedAt, cycVars, apiVars, cycles, failRun, sendBlockedMs>>

\* SensorAcq_Init lines 250-254: the driver failed; the state is Error and
\* the task's test at line 352 fails, so the cycle ends.
AcqInitFailed ==
  /\ pc = "init_failed"
  /\ xSensorStats' = [xSensorStats EXCEPT !.state = SENSOR_ACQ_ERROR]
  /\ lastWrite' = Wrote("init", FALSE)
  /\ reinitFailed' = TRUE
  /\ stable' = xSensorStats'
  /\ pc' = "delay"
  /\ UNCHANGED <<ucSensorEnabled, retry_count, sample_start_time, sensor_data,
                 xSensorDataQueue, tick, xLastWakeTime, last_stats_update,
                 sample_count_in_period, envVars, received, drvVars, statsCall,
                 blockedAt, cycVars, apiVars, cycles, failRun, sendBlockedMs>>

\* SensorAcq_Init lines 259-260: the driver is initialised; the state is
\* SENSOR_ACQ_INIT on return.
AcqInitOk ==
  /\ pc = "init_ok"
  /\ xSensorStats' = [xSensorStats EXCEPT !.state = SENSOR_ACQ_INIT]
  /\ lastWrite' = Wrote("init", FALSE)
  /\ pc' = "reinit_ok"
  /\ UNCHANGED <<ucSensorEnabled, retry_count, sample_start_time, sensor_data,
                 xSensorDataQueue, tick, xLastWakeTime, last_stats_update,
                 sample_count_in_period, envVars, received, drvVars, statsCall,
                 blockedAt, cycVars, apiVars, cycles, failRun, stable,
                 reinitFailed, sendBlockedMs>>

\* Lines 352-355: SensorAcq_Init returned HAL_OK.
AcqReinitOk ==
  /\ pc = "reinit_ok"
  /\ xSensorStats' = [xSensorStats EXCEPT !.state = SENSOR_ACQ_RUNNING]
  /\ lastWrite' = Wrote("acq", FALSE)
  /\ stable' = xSensorStats'
  /\ pc' = "delay"
  /\ UNCHANGED <<ucSensorEnabled, retry_count, sample_start_time, sensor_data,
                 xSensorDataQueue, tick, xLastWakeTime, last_stats_update,
                 sample_count_in_period, envVars, received, drvVars, statsCall,
                 blockedAt, cycVars, apiVars, cycles, failRun, reinitFailed,
                 sendBlockedMs>>

\* Line 361: vTaskDelayUntil(&xLastWakeTime, xFrequency).  The deadline
\* advances by one period; the task sleeps only when it lies in the future.
\* The exploration stops after `horizon' iterations.
AcqWake ==
  /\ pc = "delay"
  /\ cycles < horizon
  /\ xLastWakeTime' = NextWake(xLastWakeTime, tick)
  /\ tick' = Max(tick, xLastWakeTime')
  /\ cycles' = cycles + 1
  /\ pc' = "loop"
  /\ UNCHANGED <<ucSensorEnabled, xSensorStats, retry_count, sample_start_time,
                 sensor_data, xSensorDataQueue, last_stats_update,
                 sample_count_in_period, envVars, received, drvVars, statsCall,
                 blockedAt, cycVars, apiVars, failRun, stable, lastWrite,
                 reinitFailed, sendBlockedMs>>

\* The steps of the task but those of a sender blocked on a full queue.
AcqCoreNext ==
  \/ AcqStart
  \/ AcqLoopTop
  \/ AcqImuStatus
  \/ AcqImuBurst
  \/ AcqReaders
  \/ AcqSend
  \/ AcqUpdate
  \/ AcqFail
  \/ AcqReinit
  \/ AcqInitWhoAmI
  \/ AcqInitReset
  \/ AcqInitDelay
  \/ AcqInitXl
  \/ AcqInitG
  \/ AcqInitBdu
  \/ AcqInitFailed
  \/ AcqInitOk
  \/ AcqReinitOk
  \/ AcqWake

\* The steps of a sender blocked on a full queue.
AcqFullNext ==
  \/ AcqSendWake
  \/ AcqSendTimeout

AcqNext == AcqCoreNext \/ AcqFullNext

(***************************************************************************)
(* The public operations, called from another (lower-priority) task.       *)
(***************************************************************************)
\* SensorAcq_GetStats: memcpy of the statistics inside a critical section.
ApiGetStats ==
  /\ AcqBlocked
  /\ apiPc = "idle"
  /\ snap' = [taken |-> TRUE, val |-> xSensorStats, ref |-> stable]
  /\ apiPc' = "got"
  /\ UNCHANGED <<acqVars, envVars, received, drvVars, statsCall, blockedAt,
                 cycVars, apiArg, apiStatus, apiWrite, histVars>>

\* The caller has used the copy.
ApiGetStatsDone ==
  /\ AcqBlocked
  /\ apiPc = "got"
  /\ snap' = NoSnap
  /\ apiPc' = "idle"
  /\ UNCHANGED <<acqVars, envVars, received, drvVars, statsCall, blockedAt,
                 cycVars, apiArg, apiStatus, apiWrite, histVars>>

\* A reset that clears the time of the last sample too; C29_ResetFrame
\* tells it from the code's.
ResetFieldsAndTime(st) ==
  [st EXCEPT !.total_samples = 0, !.error_count = 0, !.sample_rate = <<0, 1>>,
             !.last_sample_time = 0]

\* SensorAcq_ResetStats lines 487-491.
ResetFields(st) ==
  [st EXCEPT !.total_samples = 0, !.error_count = 0, !.sample_rate = <<0, 1>>]

ApiResetStats ==
  /\ AcqBlocked
  /\ apiPc = "idle"
  /\ xSensorStats' = ResetFields(xSensorStats)
  /\ stable' = ResetFields(stable)
  /\ lastWrite' = Wrote("reset", TRUE)
  /\ UNCHANGED <<pc, ucSensorEnabled, retry_count, sample_start_time,
                 sensor_data, xSensorDataQueue, tick, xLastWakeTime,
                 last_stats_update, sample_count_in_period, envVars, received,
                 drvVars, statsCall, blockedAt, cycVars, apiVars, cycles,
                 failRun, reinitFailed, sendBlockedMs>>

\* A branch choice without the tests on the present flag;
\* C10_EnableIdempotent tells it from the code's.
EnableBranchUnconditional(enable, enabled) ==
  IF enable # 0 THEN "start" ELSE "stop"

\* SensorAcq_Enable lines 503 and 511: which branch a call takes.
EnableBranch(enable, enabled) ==
  IF enable # 0 /\ enabled = 0 THEN "start"
  ELSE IF enable = 0 /\ enabled # 0 THEN "stop"
  ELSE "none"

\* SensorAcq_Enable(enable) is entered: status = HAL_OK and the branch is
\* chosen; with neither branch taken ("en_skip") the function goes straight
\* to its return.
ApiEnableCall ==
  /\ AcqBlocked
  /\ apiPc = "idle"
  /\ \E enable \in {0, 1} :
       /\ apiArg' = enable
       /\ apiStatus' = HAL_OK
       /\ apiPc' = IF EnableBranch(enable, ucSensorEnabled) = "none"
                     THEN "en_skip" ELSE "en_w1"
  /\ UNCHANGED <<acqVars, envVars, received, drvVars, statsCall, blockedAt,
                 cycVars, snap, apiWrite, histVars>>

\* LSM6DSL_WriteReg called by LSM6DSL_Enable (lines 258-260): the mutex is
\* taken and the HAL transfer begins.  The transfer polls for up to
\* LSM6DSL_TIMEOUT_MS with the mutex held; SensorAcqTask, of higher priority,
\* runs whenever it is ready and waits in its own xSemaphoreTake.  The
\* caller runs only while the task is blocked on something else, so it finds
\* the mutex free.
ApiEnableTake ==
  /\ AcqBlocked
  /\ apiPc \in {"en_w1", "en_w2"}
  /\ ~apiWrite.active
  /\ xI2CMutex = "free"
  /\ \E r \in BusOutcomes :
       apiWrite' = [active |-> TRUE, until |-> tick + BusElapsed(r),
                    status |-> r]
  /\ xI2CMutex' = "api"
  /\ UNCHANGED <<acqVars, envVars, received, drvRest, statsCall, blockedAt,
                 cycVars, apiPc, apiArg, apiStatus, snap, histVars>>

\* LSM6DSL_WriteReg lines 260-269: the transfer has returned, the mutex is
\* given and the status returned.  When SensorAcqTask was waiting for the
\* mutex it has run first (RegAccess) and the mutex is free already.
WriteReturns ==
  /\ apiWrite.active
  /\ xI2CMutex = "api" => tick >= apiWrite.until
  /\ timeouts' = timeouts + TimeoutsPending
  /\ xI2CMutex' = "free"
  /\ apiWrite' = NoWrite
  /\ apiStatus' = apiWrite.status

\* LSM6DSL_Enable: the CTRL1_XL write; a failure returns at once.
\* SensorAcq_Enable then changes nothing when starting (line 506) and still
\* clears the flag and the state when stopping (lines 513-515).
ApiEnableWrite1 ==
  /\ AcqBlocked
  /\ apiPc = "en_w1"
  /\ WriteReturns
  /\ apiPc' = IF apiWrite.status = HAL_OK THEN "en_w2"
              ELSE IF apiArg # 0 THEN "en_ret" ELSE "en_flag"
  /\ UNCHANGED <<acqVars, busFault, horizon, received, drvRest, statsCall,
                 blockedAt, cycVars, apiArg, snap, histVars>>

\* LSM6DSL_Enable: the CTRL2_G write.
ApiEnableWrite2 ==
  /\ AcqBlocked
  /\ apiPc = "en_w2"
  /\ WriteReturns
  /\ apiPc' = IF apiWrite.status # HAL_OK /\ apiArg # 0
                THEN "en_ret" ELSE "en_flag"
  /\ UNCHANGED <<acqVars, busFault, horizon, received, drvRest, statsCall,
                 blockedAt, cycVars, apiArg, snap, histVars>>

\* Lines 507 and 514: ucSensorEnabled = 1 / 0.
ApiEnableFlag ==
  /\ AcqBlocked
  /\ apiPc = "en_flag"
  /\ ucSensorEnabled' = IF apiArg # 0 THEN 1 ELSE 0
  /\ apiPc' = "en_state"
  /\ UNCHANGED <<pc, xSensorStats, retry_count, sample_start_time, sensor_data,
                 xSensorDataQueue, tick, xLastWakeTime, last_stats_update,
                 sample_count_in_period, envVars, received, drvVars, statsCall,
                 blockedAt, cycVars, apiArg, apiStatus, snap, apiWrite,
                 histVars>>

\* Lines 508 and 515: the lifecycle state, written outside a critical section.
EnableState(enable) ==
  IF enable # 0 THEN SENSOR_ACQ_RUNNING ELSE SENSOR_ACQ_STOPPED

ApiEnableState ==
  /\ AcqBlocked
  /\ apiPc = "en_state"
  /\ xSensorStats' = [xSensorStats EXCEPT !.state = EnableState(apiArg)]
  /\ stable' = [stable EXCEPT !.state = EnableState(apiArg)]
  /\ lastWrite' = Wrote("enable", FALSE)
  /\ apiPc' = "en_ret"
  /\ UNCHANGED <<pc, ucSensorEnabled, retry_count, sample_start_time,
                 sensor_data, xSensorDataQueue, tick, xLastWakeTime,
                 last_stats_update, sample_count_in_period, envVars, received,
                 drvVars, statsCall, blockedAt, cycVars, apiArg, apiStatus,
                 snap, apiWrite, cycles, failRun, reinitFailed, sendBlockedMs>>

\* Line 519: return status.
ApiEnableReturn ==
  /\ AcqBlocked
  /\ apiPc \in {"en_ret", "en_skip"}
  /\ apiPc' = "idle"
  /\ apiArg' = 0
  /\ apiStatus' = HAL_OK
  /\ UNCHANGED <<acqVars, envVars, received, drvVars, statsCall, blockedAt,
                 cycVars, snap, apiWrite, histVars>>

ApiNext ==
  \/ ApiGetStats
  \/ ApiGetStatsDone
  \/ ApiResetStats
  \/ ApiEnableCall
  \/ ApiEnableTake
  \/ ApiEnableWrite1
  \/ ApiEnableWrite2
  \/ ApiEnableFlag
  \/ ApiEnableState
  \/ ApiEnableReturn

\* The consumer of the hand-off queue receives the oldest sample.  The
\* fusion stage is not among the sources; it is the single consumer of a
\* FIFO queue that the specification describes, and it runs while the
\* acquisition task is blocked.
Dequeue ==
  /\ AcqBlocked
  /\ xSensorDataQueue # <<>>
  /\ received' = Head(xSensorDataQueue)
  /\ xSensorDataQueue' = Tail(xSensorDataQueue)
  /\ UNCHANGED <<pc, ucSensorEnabled, xSensorStats, retry_count,
                 sample_start_time, sensor_data, tick, xLastWakeTime,
                 last_stats_update, sample_count_in_period, envVars, drvVars,
                 statsCall, blockedAt, cycVars, apiVars, histVars>>

\* The fault on the bus clears for good.
FaultClears ==
  /\ busFault
  /\ busFault' = FALSE
  /\ UNCHANGED <<acqVars, timeouts, horizon, apiVars, histVars, received,
                 drvVars, statsCall, blockedAt, cycVars>>

(***************************************************************************)
(* The LSM6DSL register driver, call by call.  A task calls one driver     *)
(* function at a time; each register access takes xI2CMutex for that one   *)
(* transaction.  Another user of the bus takes and gives the same mutex.   *)
(***************************************************************************)
\* Full-scale codes handed to LSM6DSL_Init: the codes of lsm6dsl.h and some
\* bytes that are none of them.
LSM6DSL_XL_FS_2G == 0
LSM6DSL_XL_FS_16G == 4
LSM6DSL_XL_FS_4G == 8
LSM6DSL_XL_FS_8G == 12
LSM6DSL_GY_FS_125_DPS == 2
LSM6DSL_GY_FS_250_DPS == 0
LSM6DSL_GY_FS_500_DPS == 4
LSM6DSL_GY_FS_1000_DPS == 8
LSM6DSL_GY_FS_2000_DPS == 12
FsCodes == {0, 2, 4, 6, 8, 12, 255}

\* LSM6DSL_UpdateSensitivity, accelerometer switch (lines 281-297), ug/LSB.
UpdateSensitivityAccel(accel_fs) ==
  CASE accel_fs = LSM6DSL_XL_FS_2G  -> 61
    [] accel_fs = LSM6DSL_XL_FS_4G  -> 122
    [] accel_fs = LSM6DSL_XL_FS_8G  -> 244
    [] accel_fs = LSM6DSL_XL_FS_16G -> 488
    [] OTHER -> 61

\* LSM6DSL_UpdateSensitivity, gyroscope switch (lines 300-319), udps/LSB.
UpdateSensitivityGyro(gyro_fs) ==
  CASE gyro_fs = LSM6DSL_GY_FS_125_DPS  -> 4375
    [] gyro_fs = LSM6DSL_GY_FS_250_DPS  -> 8750
    [] gyro_fs = LSM6DSL_GY_FS_500_DPS  -> 17500
    [] gyro_fs = LSM6DSL_GY_FS_1000_DPS -> 35000
    [] gyro_fs = LSM6DSL_GY_FS_2000_DPS -> 70000
    [] OTHER -> 8750

\* The initializers of the two statics (lines 23-24).
AccelSensitivityInitial == 61
GyroSensitivityInitial == 8750

(***************************************************************************)
(* LSM6DSL_ReadData, lines 126-149: the decoding of the burst.  Physical   *)
(* values are kept in fixed point: the temperature in 1/256 degree C       *)
(* (exact), accelerations in um/s^2 and angular rates in urad/s, both      *)
(* truncated toward zero; the rounding of the float operations is not      *)
(* modelled.                                                               *)
(***************************************************************************)
\* The largest value of a uint8_t of raw_data (line 104).
MaxByte == 255
BurstLen == 14
ZeroBurst == [k \in 1..BurstLen |-> 0]
ZeroImu == [temperature |-> 0, gyro |-> <<0, 0, 0>>, accel |-> <<0, 0, 0>>,
            timestamp |-> 0]

\* (int16_t)w for a 16-bit word w.
Signed16(w) == IF w >= 32768 THEN w - 65536 ELSE w

\* A word assembled high byte first; C32_BurstLayout tells it from the
\* code's.
RawWordHighFirst(raw, n) == Signed16(raw[2 * n + 1] * 256 + raw[2 * n + 2])

\* Lines 127-133: word n (0..6) of the burst, (raw_data[2n+1] << 8) |
\* raw_data[2n]; the sequence raw is indexed from 1.
RawWord(raw, n) == Signed16(raw[2 * n + 2] * 256 + raw[2 * n + 1])

\* floor(p * m / d) for naturals, digit by digit of m in base 32, so that
\* no intermediate value leaves 32 bits (p < 2^25, d < 2^20): the pair
\* <<quotient, remainder>>.
RECURSIVE MulDivQR(_, _, _)
MulDivQR(p, m, d) ==
  IF m = 0 THEN <<0, 0>>
  ELSE LET h == MulDivQR(p, m \div 32, d)
           r == 32 * h[2] + (m % 32) * p
       IN  <<32 * h[1] + r \div d, r % d>>

\* x * m / d truncated toward zero, for an integer x.
ScaleTrunc(x, m, d) ==
  IF x >= 0 THEN MulDivQR(x, m, d)[1] ELSE 0 - MulDivQR(0 - x, m, d)[1]

\* A temperature without the 25 degree offset; C22_TemperatureDecode tells
\* it from the code's.
TemperatureNoOffset(raw_temp) == raw_temp

\* Line 136: 25.0f + (float)raw_temp / 256.0f, in 1/256 degree C.
Temperature(raw_temp) == 25 * 256 + raw_temp

\* An acceleration left in units of g (ug), without the factor 9.80665;
\* C23_AccelConversion tells it from the code's.
AccelInG(raw_accel, accel_sens) == raw_accel * accel_sens

\* Lines 139-141: (float)raw_accel * accel_sensitivity * 9.80665f /
\* 1000.0f m/s^2 with the coefficient in mg/LSB; here in um/s^2 with the
\* coefficient in ug/LSB.
Accel(raw_accel, accel_sens) ==
  ScaleTrunc(raw_accel * accel_sens, 980665, 100000)

\* Lines 144-146: (float)raw_gyro * gyro_sensitivity * 3.14159f /
\* (180.0f * 1000.0f) rad/s with the coefficient in mdps/LSB; here in urad/s
\* with the coefficient in udps/LSB (a multiple of 125).
Gyro(raw_gyro, gyro_sens) ==
  ScaleTrunc(raw_gyro * (gyro_sens \div 125), 314159, 144000)

\* Lines 126-149: the sample decoded from the burst at tick `now'.
Decode(raw, accel_sens, gyro_sens, now) ==
  [temperature |-> Temperature(RawWord(raw, 0)),
   gyro |-> [i \in 1..3 |-> Gyro(RawWord(raw, i), gyro_sens)],
   accel |-> [i \in 1..3 |-> Accel(RawWord(raw, 3 + i), accel_sens)],
   timestamp |-> now]

\* Bursts in which every word differs, one for each pair of bytes lo, hi.
BurstBytes(lo, hi) ==
  [k \in 1..BurstLen |->
     IF k % 2 = 1 THEN (lo + 37 * ((k - 1) \div 2)) % (MaxByte + 1)
                  ELSE (hi + 59 * ((k - 1) \div 2)) % (MaxByte + 1)]

\* The bursts the device delivers beside the driver's other calls: all
\* zero; temperature word 256, rates 1, -1, 32767 and axes 1000, -1000,
\* -32768.
BurstSamples ==
  {ZeroBurst,
   <<0, 1, 1, 0, 255, 255, 255, 127, 232, 3, 24, 252, 0, 128>>}

NoCall == [op |-> "none"]
\* The public functions of the driver (lsm6dsl.h lines 142-178) with their
\* arguments; the byte LSM6DSL_ConfigInterrupt writes is not kept.
DrvCalls ==
  {[op |-> "init", accel_fs |-> a, gyro_fs |-> g] : a \in FsCodes, g \in FsCodes}
    \cup {[op |-> "enable", enable |-> e] : e \in {0, 1}}
    \cup {[op |-> "read_data"], [op |-> "get_status"], [op |-> "soft_reset"],
          [op |-> "read_who_am_i"], [op |-> "config_interrupt"]}

\* The first register access of each driver function.
FirstReg(call) ==
  CASE call.op = "init"       -> "who_am_i"
    [] call.op = "read_data"  -> "status"
    [] call.op = "get_status" -> "st"
    [] call.op = "soft_reset" -> "rst"
    [] call.op = "enable"     -> "en_xl"
    [] call.op = "read_who_am_i"    -> "id"
    [] call.op = "config_interrupt" -> "int"

\* Registers that are read; the others are written.
ReadRegs == {"who_am_i", "status", "burst", "st", "id"}

\* The accesses that write a mode register.
ModeRegs == {"xl", "g", "en_xl", "en_g"}

\* The byte written to a mode register, as the register, the data rate and
\* the full-scale code: LSM6DSL_Init lines 60 and 67 (odr | fs of the
\* configuration) and LSM6DSL_Enable lines 186-201 (104 Hz with 2 g and
\* 250 dps, or the power-down code, which is 0x00).
ModeByte(reg, call) ==
  CASE reg = "xl" ->
         [reg |-> "CTRL1_XL", odr |-> "config", fs |-> call.accel_fs]
    [] reg = "g" ->
         [reg |-> "CTRL2_G", odr |-> "config", fs |-> call.gyro_fs]
    [] reg = "en_xl" ->
         IF call.enable # 0
           THEN [reg |-> "CTRL1_XL", odr |-> "104hz", fs |-> LSM6DSL_XL_FS_2G]
           ELSE [reg |-> "CTRL1_XL", odr |-> "down", fs |-> 0]
    [] reg = "en_g" ->
         IF call.enable # 0
           THEN [reg |-> "CTRL2_G", odr |-> "104hz",
                 fs |-> LSM6DSL_GY_FS_250_DPS]
           ELSE [reg |-> "CTRL2_G", odr |-> "down", fs |-> 0]

\* What a successful read can deliver.
ReadValues(reg) ==
  CASE reg \in {"who_am_i", "id"} -> {LSM6DSL_WHO_AM_I_VALUE, 0}
    [] reg \in {"status", "st"} -> StatusValues
    [] OTHER -> {0}

\* What no step of the driver changes.
drvFrame == <<acqRest, busFault, horizon, apiVars, histVars, received, cycVars,
              statsCall, blockedAt>>
\* The tick and what the driver's steps record of it.
drvClock == <<tick, timeouts, drvBlockedAt, otherUntil, drvCalls>>
decVars == <<raw_data, imu_data>>

\* The tick interrupt while the caller of the driver sleeps in vTaskDelay
\* (LSM6DSL_Init line 57): the tick count advances, TickStep ticks at a
\* time, up to the end of the delay.  While the caller waits in
\* xSemaphoreTake the holder of the mutex polls its transfer, and the next
\* thing to happen is the return of that transfer (OtherGive) or the expiry
\* of the wait (RegTakeTimeout).
DrvTick ==
  /\ drvPc = "settle"
  /\ tick < drvBlockedAt + ResetSettleMs
  /\ tick' = Min(tick + TickStep, drvBlockedAt + ResetSettleMs)
  /\ UNCHANGED <<drvPc, drvArg, regPhase, regStatus, regOut, drvStatus,
                 data_ready, xI2CMutex, otherInBus, busLog, accel_sensitivity,
                 gyro_sensitivity, busFailure, selected, decVars, written,
                 drvFrame, timeouts, drvBlockedAt, otherUntil, drvCalls>>

\* A task enters a driver function.
DrvCall ==
  /\ drvPc = "idle"
  /\ drvCalls < MaxDrvCalls
  /\ drvCalls' = drvCalls + 1
  /\ \E call \in DrvCalls :
       /\ drvArg' = call
       /\ drvPc' = FirstReg(call)
  /\ regPhase' = "call"
  /\ drvStatus' = HAL_OK
  /\ busLog' = <<>>
  /\ busFailure' = "none"
  /\ data_ready' = 0
  /\ raw_data' = ZeroBurst
  /\ imu_data' = ZeroImu
  /\ written' = <<>>
  /\ UNCHANGED <<regStatus, regOut, xI2CMutex, otherInBus,
                 accel_sensitivity, gyro_sensitivity, selected, drvFrame,
                 tick, timeouts, drvBlockedAt, otherUntil>>

\* LSM6DSL_ReadReg / LSM6DSL_WriteReg, xSemaphoreTake: the mutex is taken at
\* once when free, otherwise the caller waits for it from this tick.
RegTake ==
  /\ regPhase = "call"
  /\ IF xI2CMutex = "free"
       THEN xI2CMutex' = "drv" /\ regPhase' = "bus" /\ UNCHANGED drvBlockedAt
       ELSE UNCHANGED xI2CMutex /\ regPhase' = "wait" /\ drvBlockedAt' = tick
  /\ UNCHANGED <<drvPc, drvArg, regStatus, regOut, drvStatus, data_ready,
                 otherInBus, busLog, accel_sensitivity, gyro_sensitivity,
                 busFailure, selected, drvFrame, decVars, written,
                 tick, timeouts, otherUntil, drvCalls>>

\* The holder has given the mutex within the wait, at this tick; the waiting
\* caller is made ready and takes it.
RegTakeLate ==
  /\ regPhase = "wait"
  /\ xI2CMutex = "free"
  /\ xI2CMutex' = "drv"
  /\ regPhase' = "bus"
  /\ drvBlockedAt' = 0
  /\ UNCHANGED <<drvPc, drvArg, regStatus, regOut, drvStatus, data_ready,
                 otherInBus, busLog, accel_sensitivity, gyro_sensitivity,
                 busFailure, selected, drvFrame, decVars, written,
                 tick, timeouts, otherUntil, drvCalls>>

\* A bus operation ended with status r: the first failure is remembered.
Failed(r) == IF r # HAL_OK /\ busFailure = "none" THEN r ELSE busFailure

\* A register access that goes on to the bus without the mutex when the
\* wait expires; C17_MutexTimeout tells it from the code's.
RegTakeTimeoutTransacts ==
  /\ regPhase = "wait"
  /\ xI2CMutex # "free"
  /\ tick' = drvBlockedAt + LSM6DSL_TIMEOUT_MS
  /\ drvBlockedAt' = 0
  /\ regStatus' = HAL_TIMEOUT
  /\ busFailure' = Failed(HAL_TIMEOUT)
  /\ busLog' = Append(busLog, drvPc)
  /\ regPhase' = "done"
  /\ UNCHANGED <<drvPc, drvArg, regOut, drvStatus, data_ready, xI2CMutex,
                 otherInBus, accel_sensitivity, gyro_sensitivity, selected,
                 drvFrame, decVars, written, timeouts, otherUntil, drvCalls>>

\* Lines 240-242 / 266-268: the mutex is still held when the wait expires,
\* LSM6DSL_TIMEOUT_MS ticks after the call; the function returns
\* HAL_TIMEOUT.
RegTakeTimeout ==
  /\ regPhase = "wait"
  /\ xI2CMutex # "free"
  /\ tick' = drvBlockedAt + LSM6DSL_TIMEOUT_MS
  /\ drvBlockedAt' = 0
  /\ regStatus' = HAL_TIMEOUT
  /\ busFailure' = Failed(HAL_TIMEOUT)
  /\ regPhase' = "done"
  /\ UNCHANGED <<drvPc, drvArg, regOut, drvStatus, data_ready, xI2CMutex,
                 otherInBus, busLog, accel_sensitivity, gyro_sensitivity,
                 selected, drvFrame, decVars, written, timeouts, otherUntil,
                 drvCalls>>

\* HAL_I2C_Mem_Read / HAL_I2C_Mem_Write with the mutex held: the transfer
\* begins at this tick and returns BusElapsed ticks later.
RegTransfer ==
  /\ regPhase = "bus"
  /\ \E r \in BusOutcomes :
       /\ regStatus' = r
       /\ tick' = tick + BusElapsed(r)
       /\ timeouts' = CountTimeout(r)
       /\ busFailure' = Failed(r)
       /\ IF r = HAL_OK /\ drvPc \in ReadRegs
            THEN \E v \in ReadValues(drvPc) : regOut' = v
            ELSE UNCHANGED regOut
       /\ IF r = HAL_OK /\ drvPc = "burst"
            THEN \E b \in BurstSamples : raw_data' = b
            ELSE UNCHANGED raw_data
       /\ IF r = HAL_OK /\ drvPc \in ModeRegs
            THEN written' = Append(written, ModeByte(drvPc, drvArg))
            ELSE UNCHANGED written
  /\ busLog' = Append(busLog, drvPc)
  /\ regPhase' = "give"
  /\ UNCHANGED <<drvPc, drvArg, drvStatus, data_ready, xI2CMutex, otherInBus,
                 accel_sensitivity, gyro_sensitivity, selected, imu_data,
                 drvFrame, drvBlockedAt, otherUntil, drvCalls>>

\* A register access that gives the mutex only after a successful transfer;
\* C16_BusArbitration tells it from the code's.
RegGiveOnSuccess ==
  /\ regPhase = "give"
  /\ xI2CMutex' = IF regStatus = HAL_OK THEN "free" ELSE xI2CMutex
  /\ regPhase' = "done"
  /\ UNCHANGED <<drvPc, drvArg, regStatus, regOut, drvStatus, data_ready,
                 otherInBus, busLog, accel_sensitivity, gyro_sensitivity,
                 busFailure, selected, drvFrame, drvClock, decVars, written>>

\* xSemaphoreGive after the transfer, whatever its status.
RegGive ==
  /\ regPhase = "give"
  /\ xI2CMutex' = "free"
  /\ regPhase' = "done"
  /\ UNCHANGED <<drvPc, drvArg, regStatus, regOut, drvStatus, data_ready,
                 otherInBus, busLog, accel_sensitivity, gyro_sensitivity,
                 busFailure, selected, drvFrame, drvClock, decVars, written>>

\* The function goes on to its next register access, or returns.
GoTo(reg) == drvPc' = reg /\ regPhase' = "call" /\ UNCHANGED drvStatus
Return(st) == drvPc' = "ret" /\ regPhase' = "none" /\ drvStatus' = st

\* An identity test that accepts any byte read; C19_IdentityMismatch tells it
\* from the code's.
IdentityOkAnyValue(st, who_am_i) == st = HAL_OK

\* LSM6DSL_Init line 46: the identity test.
IdentityOk(st, who_am_i) == st = HAL_OK /\ who_am_i = LSM6DSL_WHO_AM_I_VALUE

\* LSM6DSL_Init after each of its register accesses (lines 45-83).  After
\* the soft reset it enters vTaskDelay at this tick.  The coefficients are
\* updated only when every access has succeeded.
DrvInitStep ==
  /\ drvArg.op = "init"
  /\ regPhase = "done"
  /\ drvBlockedAt' = IF drvPc = "reset" /\ regStatus = HAL_OK
                        THEN tick ELSE drvBlockedAt
  /\ CASE drvPc = "who_am_i" ->
            /\ IF IdentityOk(regStatus, regOut)
                 THEN GoTo("reset") ELSE Return(HAL_ERROR)
            /\ UNCHANGED <<accel_sensitivity, gyro_sensitivity, selected>>
       [] drvPc = "reset" ->
            /\ IF regStatus # HAL_OK
                 THEN Return(regStatus)
                 ELSE drvPc' = "settle" /\ regPhase' = "none"
                      /\ UNCHANGED drvStatus
            /\ UNCHANGED <<accel_sensitivity, gyro_sensitivity, selected>>
       [] drvPc = "xl" ->
            /\ IF regStatus # HAL_OK THEN Return(regStatus) ELSE GoTo("g")
            /\ UNCHANGED <<accel_sensitivity, gyro_sensitivity, selected>>
       [] drvPc = "g" ->
            /\ IF regStatus # HAL_OK THEN Return(regStatus) ELSE GoTo("bdu")
            /\ UNCHANGED <<accel_sensitivity, gyro_sensitivity, selected>>
       [] drvPc = "bdu" ->
            IF regStatus # HAL_OK
              THEN /\ Return(regStatus)
                   /\ UNCHANGED <<accel_sensitivity, gyro_sensitivity,
                                  selected>>
              ELSE /\ accel_sensitivity' = UpdateSensitivityAccel(drvArg.accel_fs)
                   /\ gyro_sensitivity' = UpdateSensitivityGyro(drvArg.gyro_fs)
                   /\ selected' = <<accel_sensitivity', gyro_sensitivity'>>
                   /\ Return(HAL_OK)
  /\ UNCHANGED <<drvArg, regStatus, regOut, data_ready, xI2CMutex, otherInBus,
                 busLog, busFailure, drvFrame, decVars, written,
                 tick, timeouts, otherUntil, drvCalls>>

\* An initialization that goes on to the mode registers without waiting for
\* the device to reset; C26_InitOrder tells it from the code's.
DrvInitSettleSkipped ==
  /\ drvPc = "settle"
  /\ drvBlockedAt' = 0
  /\ GoTo("xl")
  /\ UNCHANGED <<drvArg, regStatus, regOut, data_ready, xI2CMutex, otherInBus,
                 busLog, accel_sensitivity, gyro_sensitivity, busFailure,
                 selected, drvFrame, decVars, written, tick, timeouts,
                 otherUntil, drvCalls>>

\* LSM6DSL_Init line 57: vTaskDelay(pdMS_TO_TICKS(10)) while the device
\* resets; it returns ResetSettleMs ticks after the call.
DrvInitSettle ==
  /\ drvPc = "settle"
  /\ tick' = drvBlockedAt + ResetSettleMs
  /\ drvBlockedAt' = 0
  /\ GoTo("xl")
  /\ UNCHANGED <<drvArg, regStatus, regOut, data_ready, xI2CMutex, otherInBus,
                 busLog, accel_sensitivity, gyro_sensitivity, busFailure,
                 selected, drvFrame, decVars, written, timeouts, otherUntil,
                 drvCalls>>

\* LSM6DSL_ReadData after the status read (lines 110-118) and after the
\* burst read (lines 122-151).
DrvReadDataStep ==
  /\ drvArg.op = "read_data"
  /\ regPhase = "done"
  /\ CASE drvPc = "status" ->
            IF regStatus # HAL_OK
              THEN Return(regStatus) /\ UNCHANGED <<data_ready, imu_data>>
              ELSE /\ data_ready' = IF DataReady(regOut) THEN 1 ELSE 0
                   /\ IF DataReady(regOut) THEN GoTo("burst") ELSE Return(HAL_OK)
                   /\ UNCHANGED imu_data
       [] drvPc = "burst" ->
            /\ IF regStatus # HAL_OK
                 THEN Return(regStatus) /\ UNCHANGED imu_data
                 ELSE /\ imu_data' = Decode(raw_data, accel_sensitivity,
                                            gyro_sensitivity, tick)
                      /\ Return(HAL_OK)
            /\ UNCHANGED data_ready
  /\ UNCHANGED <<drvArg, regStatus, regOut, xI2CMutex, otherInBus, busLog,
                 accel_sensitivity, gyro_sensitivity, busFailure, selected,
                 raw_data, written, drvFrame, drvClock>>

\* An enable that sets the coefficients of the ranges it writes to the
\* device (2 g, 250 dps); C11_EnableKeepsSensitivity tells it from the code's.
DrvEnableStepResync ==
  /\ drvArg.op = "enable"
  /\ regPhase = "done"
  /\ CASE drvPc = "en_xl" ->
            IF regStatus # HAL_OK THEN Return(regStatus) ELSE GoTo("en_g")
       [] drvPc = "en_g" -> Return(regStatus)
  /\ accel_sensitivity' = AccelSensitivityInitial
  /\ gyro_sensitivity' = GyroSensitivityInitial
  /\ UNCHANGED <<drvArg, regStatus, regOut, data_ready, xI2CMutex, otherInBus,
                 busLog, busFailure, selected, drvFrame, drvClock, decVars,
                 written>>

\* LSM6DSL_Enable after each of its two writes (lines 184-204).
DrvEnableStep ==
  /\ drvArg.op = "enable"
  /\ regPhase = "done"
  /\ CASE drvPc = "en_xl" ->
            IF regStatus # HAL_OK THEN Return(regStatus) ELSE GoTo("en_g")
       [] drvPc = "en_g" -> Return(regStatus)
  /\ UNCHANGED <<drvArg, regStatus, regOut, data_ready, xI2CMutex, otherInBus,
                 busLog, accel_sensitivity, gyro_sensitivity, busFailure,
                 selected, drvFrame, drvClock, decVars, written>>

\* LSM6DSL_ReadWhoAmI (line 93), LSM6DSL_GetStatus (line 161),
\* LSM6DSL_SoftReset (line 171) and LSM6DSL_ConfigInterrupt (line 215)
\* return the status of their single register access.
DrvSingleStep ==
  /\ drvArg.op \in {"read_who_am_i", "get_status", "soft_reset",
                    "config_interrupt"}
  /\ regPhase = "done"
  /\ Return(regStatus)
  /\ UNCHANGED <<drvArg, regStatus, regOut, data_ready, xI2CMutex, otherInBus,
                 busLog, accel_sensitivity, gyro_sensitivity, busFailure,
                 selected, drvFrame, drvClock, decVars, written>>

\* The driver function has returned to its caller.
DrvReturn ==
  /\ drvPc = "ret"
  /\ drvPc' = "idle"
  /\ drvArg' = NoCall
  /\ raw_data' = ZeroBurst
  /\ imu_data' = ZeroImu
  /\ UNCHANGED <<regPhase, regStatus, regOut, drvStatus, data_ready, xI2CMutex,
                 otherInBus, busLog, accel_sensitivity, gyro_sensitivity,
                 busFailure, selected, written, drvFrame, drvClock>>

\* Another task using the bus takes the mutex for its own register access
\* (lines 232-236 and 258-262), whose transfer returns BusElapsed ticks
\* later ...
OtherTake ==
  /\ xI2CMutex = "free"
  /\ xI2CMutex' = "other"
  /\ otherInBus' = TRUE
  /\ \E r \in BusOutcomes :
       /\ otherUntil' = tick + BusElapsed(r)
       /\ timeouts' = CountTimeout(r)
  /\ UNCHANGED <<drvPc, drvArg, regPhase, regStatus, regOut, drvStatus,
                 data_ready, busLog, accel_sensitivity, gyro_sensitivity,
                 busFailure, selected, drvFrame, decVars, written,
                 tick, drvBlockedAt, drvCalls>>

\* ... and gives it when the transfer has returned: at this tick, or at
\* the tick of the return while the caller of the driver waits for the
\* mutex and its wait has not expired by then.
OtherGive ==
  /\ otherInBus
  /\ \/ tick >= otherUntil
     \/ /\ regPhase = "wait"
        /\ otherUntil <= drvBlockedAt + LSM6DSL_TIMEOUT_MS
  /\ tick' = Max(tick, otherUntil)
  /\ otherUntil' = 0
  /\ xI2CMutex' = "free"
  /\ otherInBus' = FALSE
  /\ UNCHANGED <<drvPc, drvArg, regPhase, regStatus, regOut, drvStatus,
                 data_ready, busLog, accel_sensitivity, gyro_sensitivity,
                 busFailure, selected, drvFrame, decVars, written,
                 timeouts, drvBlockedAt, drvCalls>>

\* The steps of the task that calls the driver.
DrvCallerNext ==
  \/ DrvCall
  \/ RegTake
  \/ RegTakeLate
  \/ RegTakeTimeout
  \/ RegTransfer
  \/ RegGive
  \/ DrvInitStep
  \/ DrvInitSettle
  \/ DrvReadDataStep
  \/ DrvEnableStep
  \/ DrvSingleStep
  \/ DrvReturn

DrvNext == DrvCallerNext \/ DrvTick \/ OtherTake \/ OtherGive

(***************************************************************************)
(* Specifications.                                                         *)
(***************************************************************************)
\* MainTask has run SensorAcq_Init with success (statistics cleared, state
\* SENSOR_ACQ_INIT) and created SensorAcqTask, which runs at once.
TaskStart(h, fault) ==
  /\ pc = "start"
  /\ ucSensorEnabled = 0
  /\ xSensorStats = ZeroStats
  /\ retry_count = 0
  /\ sample_start_time = 0
  /\ sensor_data = ZeroSample
  /\ xSensorDataQueue = <<>>
  /\ tick = StartTick
  /\ xLastWakeTime = 0
  /\ last_stats_update = 0
  /\ sample_count_in_period = 0
  /\ busFault = fault
  /\ timeouts = 0
  /\ horizon = h
  /\ apiPc = "idle"
  /\ apiArg = 0
  /\ apiStatus = HAL_OK
  /\ snap = NoSnap
  /\ apiWrite = NoWrite
  /\ cycles = 1
  /\ failRun = 0
  /\ stable = ZeroStats
  /\ lastWrite = Wrote("init", FALSE)
  /\ reinitFailed = FALSE
  /\ sendBlockedMs = 0
  /\ received = Queued(ZeroSample)
  /\ status = HAL_OK
  /\ imu_ready = 0
  /\ imu_temperature = 0
  /\ readersCalled = <<>>
  /\ blockedAt = 0

\* The task starts on a bus that may fail.
TaskInit(h) == TaskStart(h, TRUE)

\* No driver function is running; the statics have their initializers.
DrvIdle ==
  /\ drvPc = "idle"
  /\ drvArg = NoCall
  /\ regPhase = "none"
  /\ regStatus = HAL_OK
  /\ regOut = 0
  /\ drvStatus = HAL_OK
  /\ data_ready = 0
  /\ xI2CMutex = "free"
  /\ otherInBus = FALSE
  /\ busLog = <<>>
  /\ accel_sensitivity = AccelSensitivityInitial
  /\ gyro_sensitivity = GyroSensitivityInitial
  /\ busFailure = "none"
  /\ selected = <<>>
  /\ raw_data = ZeroBurst
  /\ imu_data = ZeroImu
  /\ written = <<>>
  /\ drvBlockedAt = 0
  /\ otherUntil = 0
  /\ drvCalls = 0

InitWith(h) == TaskInit(h) /\ DrvIdle /\ statsCall = NoStatsCall

\* The acquisition task, the callers of the public operations and the
\* consumer, over MaxCycles loop iterations.  MaxCycles is below QueueLength,
\* so the queue never fills here and the steps of a blocked sender are
\* explored by SeqSpec and LiveSpec.
Init == InitWith(MaxCycles)

Next == AcqCoreNext \/ ApiNext \/ Dequeue \/ Tick

Spec == Init /\ [][Next]_vars

\* The acquisition task and the consumer over MaxSeqCycles loop iterations.
SeqInit == InitWith(MaxSeqCycles)

SeqNext == AcqNext \/ Dequeue \/ Tick

SeqSpec == SeqInit /\ [][SeqNext]_vars

\* The acquisition task alone over LiveCycles loop iterations, with no
\* caller of the public operations, no consumer (a queue once full stays
\* full, so a blocked sender is never woken) and a bus whose fault may
\* clear.  The task is the highest-priority task and each of its blocking
\* calls has a timeout, so it always takes its next step.
LiveInit == InitWith(LiveCycles)

AcqAloneNext == AcqCoreNext \/ AcqSendTimeout

LiveNext == AcqAloneNext \/ FaultClears \/ Tick

LiveSpec == LiveInit /\ [][LiveNext]_vars /\ WF_vars(AcqAloneNext)

\* The steps of a loop iteration whose reads succeed.
AcqOkNext ==
  \/ AcqStart
  \/ AcqLoopTop
  \/ AcqImuStatus
  \/ AcqImuBurst
  \/ AcqReaders
  \/ AcqSend
  \/ AcqUpdate
  \/ AcqWake

\* The acquisition task and the consumer over RateCycles loop iterations on
\* a bus without fault, with a consumer that makes room within the wait of
\* a sender blocked on the full queue: every cycle's reads succeed, every
\* sample is enqueued and, no caller of SensorAcq_Enable holding the bus,
\* every cycle starts on its period.
RateInit == TaskStart(RateCycles, FALSE) /\ DrvIdle /\ statsCall = NoStatsCall

RateNext == AcqOkNext \/ AcqSendWake \/ Dequeue \/ Tick

RateSpec == RateInit /\ [][RateNext]_vars

\* The driver alone: a task calling MaxDrvCalls of its functions one after
\* another, on a faulty bus shared with another user.  The calling task is
\* scheduled again and again, and each of its waits is bounded.
DrvInit == InitWith(MaxCycles)

DrvSpec == DrvInit /\ [][DrvNext]_vars /\ WF_vars(DrvCallerNext)

\* One call of SensorAcq_UpdateStats, for every pair of ticks of StatsCalls.
StatsInit == TaskInit(MaxCycles) /\ DrvIdle /\ statsCall \in StatsCalls
StatsNext == StatsCallStep
StatsSpec == StatsInit /\ [][StatsNext]_vars

\* The full-scale codes of the accelerometer (lsm6dsl.h lines 98-101).
XlFsCodes == {LSM6DSL_XL_FS_2G, LSM6DSL_XL_FS_4G, LSM6DSL_XL_FS_8G,
              LSM6DSL_XL_FS_16G}

\* The decoding alone: LSM6DSL_ReadData stands after its burst read, which
\* succeeded, with any bytes in the temperature word (the other words
\* follow from it, all different) and the coefficient of any accelerometer
\* range cached by an earlier LSM6DSL_Init.
DecInit ==
  /\ TaskInit(MaxCycles)
  /\ drvPc = "burst"
  /\ drvArg = [op |-> "read_data"]
  /\ regPhase = "done"
  /\ regStatus = HAL_OK
  /\ regOut = LSM6DSL_STATUS_XLDA + LSM6DSL_STATUS_GDA
  /\ drvStatus = HAL_OK
  /\ data_ready = 1
  /\ xI2CMutex = "free"
  /\ otherInBus = FALSE
  /\ busLog = <<"status", "burst">>
  /\ \E accel_fs \in XlFsCodes :
       accel_sensitivity = UpdateSensitivityAccel(accel_fs)
  /\ gyro_sensitivity = UpdateSensitivityGyro(LSM6DSL_GY_FS_250_DPS)
  /\ busFailure = "none"
  /\ selected = <<accel_sensitivity, gyro_sensitivity>>
  /\ \E lo \in 0..MaxByte, hi \in 0..MaxByte : raw_data = BurstBytes(lo, hi)
  /\ imu_data = ZeroImu
  /\ written = <<>>
  /\ drvBlockedAt = 0
  /\ otherUntil = 0
  /\ drvCalls = 1
  /\ statsCall = NoStatsCall

DecNext == DrvReadDataStep \/ DrvReturn

DecSpec == DecInit /\ [][DecNext]_vars

-----------------------------------------------------------------------------
(* Properties of the acquisition subsystem.                                *)

state == xSensorStats.state

\* C1: the state becomes Error and a reinitialization is triggered exactly
\* when the third failure in a row (no successful cycle in between) is
\* handled; the first and second failures leave the state alone and go to the
\* periodic wait; a successful cycle clears the consecutive-failure counter;
\* a successful reinitialization leaves Running with the counter at 0.
C1_ThresholdRecovery ==
  [][ /\ pc = "fail" =>
           /\ (pc' = "reinit") <=> (failRun + 1 = SENSOR_MAX_RETRY_COUNT)
           /\ (state' = SENSOR_ACQ_ERROR) <=>
                (failRun + 1 = SENSOR_MAX_RETRY_COUNT \/ state = SENSOR_ACQ_ERROR)
           /\ failRun + 1 < SENSOR_MAX_RETRY_COUNT =>
                /\ pc' = "delay"
                /\ state' = state
                /\ retry_count' = failRun + 1
      /\ pc' = "reinit" => pc = "fail"
      /\ (state' = SENSOR_ACQ_ERROR /\ state # SENSOR_ACQ_ERROR) =>
           pc \in {"fail", "init_failed"}
      /\ pc = "readers" => retry_count' = 0
      /\ pc = "reinit_ok" =>
           (pc' = "delay" /\ state' = SENSOR_ACQ_RUNNING /\ retry_count' = 0)
    ]_vars

\* C1 witness: a cycle that failed at the threshold has reinitialized
\* successfully and reached its periodic wait in Running.
C1_Witness ==
  /\ pc = "delay"
  /\ sensor_data.timestamp >= StartTick
  /\ sensor_data.data_valid = 0
  /\ retry_count = 0
  /\ ~reinitFailed
  /\ lastWrite = Wrote("acq", FALSE)
  /\ state = SENSOR_ACQ_RUNNING

\* C2: while a failed reinitialization is pending, no ordinary sensor read is
\* begun: the next enabled cycle starts with the reinitialization attempt.
C2_RetryNextCycle == ~(reinitFailed /\ pc = "imu_status")

LifecycleTransitions ==
  { <<SENSOR_ACQ_INIT, SENSOR_ACQ_RUNNING>>,
    <<SENSOR_ACQ_RUNNING, SENSOR_ACQ_ERROR>>,
    <<SENSOR_ACQ_ERROR, SENSOR_ACQ_RUNNING>>,
    <<SENSOR_ACQ_RUNNING, SENSOR_ACQ_STOPPED>>,
    <<SENSOR_ACQ_STOPPED, SENSOR_ACQ_RUNNING>> }

\* C4: the lifecycle state changes only along the five transitions of the
\* state machine, and Error is left for Running only as the last step of a
\* successful reinitialization.
C4_LifecycleTransitions ==
  [][ /\ state' # state => <<state, state'>> \in LifecycleTransitions
      /\ (state = SENSOR_ACQ_ERROR /\ state' = SENSOR_ACQ_RUNNING) =>
           pc = "reinit_ok"
    ]_vars

\* C5: the expiry of the bounded wait on a full queue adds exactly one to
\* error_count, leaves the consecutive-failure counter at 0 and the lifecycle
\* state as it was, and the cycle goes on to its statistics update and its
\* periodic wait, never to the failure branch or a reinitialization.
C5_FailedEnqueue ==
  [][ /\ (pc = "send_wait" /\ pc' # pc /\ xSensorDataQueue' = xSensorDataQueue) =>
           /\ xSensorStats' =
                [xSensorStats EXCEPT !.error_count = @ + 1]
           /\ retry_count = 0 /\ retry_count' = 0
           /\ pc' = "update"
      /\ (pc = "update" /\ pc' # pc) =>
           /\ pc' = "delay"
           /\ retry_count' = 0
           /\ state' = state
           /\ xSensorStats'.error_count = xSensorStats.error_count
    ]_vars

\* C5 witness: two cycles have lost their sample to the full queue, every
\* cycle so far read its sensors successfully, and the task is Running with
\* the consecutive-failure counter at 0.
C5_Witness ==
  /\ pc = "delay"
  /\ Len(xSensorDataQueue) = QueueLength
  /\ xSensorStats.error_count = 2
  /\ xSensorStats.total_samples = cycles
  /\ retry_count = 0
  /\ state = SENSOR_ACQ_RUNNING

C7_SnapshotNeverTorn == snap.taken => snap.val = snap.ref

\* C8: but for reset and module initialization, the latest write to the
\* statistics was made by the acquisition task inside a critical section.
C8_WritesGuarded ==
  lastWrite.by \notin {"reset", "init"} =>
    (lastWrite.by = "acq" /\ lastWrite.crit)

\* C9: total_samples and error_count decrease only in a step of
\* SensorAcq_ResetStats.
C9_CountersOnlyReset ==
  [][ (\/ xSensorStats'.total_samples < xSensorStats.total_samples
       \/ xSensorStats'.error_count < xSensorStats.error_count)
        => (apiPc = "idle" /\ lastWrite' = Wrote("reset", TRUE) /\ pc' = pc)
    ]_vars

\* C10: a call of SensorAcq_Enable whose requested state already holds goes
\* straight to its return, with no bus transaction, and returns HAL_OK with
\* the enabled flag and the lifecycle state as they were.
C10_EnableIdempotent ==
  [][ /\ (/\ apiPc = "idle"
          /\ apiPc' \in {"en_skip", "en_w1"}
          /\ (apiArg' # 0) = (ucSensorEnabled # 0)) =>
           /\ apiPc' = "en_skip"
           /\ apiStatus' = HAL_OK
           /\ UNCHANGED <<ucSensorEnabled, xSensorStats>>
      /\ (apiPc = "en_skip" /\ apiPc' # apiPc) =>
           /\ apiPc' = "idle"
           /\ apiStatus = HAL_OK
           /\ UNCHANGED <<ucSensorEnabled, xSensorStats>>
    ]_vars

\* C10 witness: a disable request made while acquisition is already disabled
\* is about to return.
C10_Witness ==
  /\ apiPc = "en_skip"
  /\ apiArg = 0
  /\ ucSensorEnabled = 0
  /\ apiStatus = HAL_OK

\* C11: no step of LSM6DSL_Enable changes the cached coefficients, and once
\* an LSM6DSL_Init has succeeded the coefficients are those it selected.
C11_EnableKeepsSensitivity ==
  /\ [][drvArg.op = "enable" =>
          UNCHANGED <<accel_sensitivity, gyro_sensitivity>>]_vars
  /\ [](selected # <<>> => <<accel_sensitivity, gyro_sensitivity>> = selected)

\* C11 witness: an enable call has gone through both writes after an
\* initialize that selected 16 g and 2000 dps, and the coefficients are still
\* those.
C11_Witness ==
  /\ drvPc = "ret"
  /\ drvArg = [op |-> "enable", enable |-> 1]
  /\ busLog = <<"en_xl", "en_g">>
  /\ selected = <<488, 70000>>
  /\ accel_sensitivity = 488
  /\ gyro_sensitivity = 70000

\* C12: LSM6DSL_ReadData begins with the status register; with neither bit
\* 0x01 nor bit 0x02 set it returns HAL_OK with data_ready 0 after that one
\* read; with one of them set it goes on to the burst read with data_ready 1,
\* and returns HAL_OK when the burst read succeeds.
C12_ReadDataReady ==
  [][ /\ (drvPc = "idle" /\ drvArg'.op = "read_data") => drvPc' = "status"
      /\ (/\ drvArg.op = "read_data" /\ drvPc = "status" /\ regPhase = "done"
          /\ regStatus = HAL_OK /\ drvPc' # drvPc) =>
           IF regOut % 2 = 1 \/ (regOut \div 2) % 2 = 1
             THEN drvPc' = "burst" /\ data_ready' = 1
             ELSE /\ drvPc' = "ret"
                  /\ drvStatus' = HAL_OK
                  /\ data_ready' = 0
                  /\ busLog' = <<"status">>
      /\ (/\ drvArg.op = "read_data" /\ drvPc = "burst" /\ regPhase = "done"
          /\ regStatus = HAL_OK /\ drvPc' # drvPc) =>
           (drvPc' = "ret" /\ drvStatus' = HAL_OK /\ data_ready' = 1)
    ]_vars

\* C12 witness: the status register held the temperature bit alone and
\* LSM6DSL_ReadData has returned HAL_OK, not ready, after its single read.
C12_Witness ==
  /\ drvPc = "ret"
  /\ drvArg.op = "read_data"
  /\ regOut = 4
  /\ busLog = <<"status">>
  /\ data_ready = 0
  /\ drvStatus = HAL_OK

\* What the specification expects of a successful initialize, not what the
\* code computes (that is UpdateSensitivityAccel / UpdateSensitivityGyro):
\* the coefficients of the data sheet for the defined codes and, for a code
\* that is none of them, the coefficient of the narrowest range of the
\* sensor (2 g, 125 dps).  C13_SensitivityTable compares the code with it.
DocumentedAccel(accel_fs) ==
  CASE accel_fs = LSM6DSL_XL_FS_2G  -> 61
    [] accel_fs = LSM6DSL_XL_FS_4G  -> 122
    [] accel_fs = LSM6DSL_XL_FS_8G  -> 244
    [] accel_fs = LSM6DSL_XL_FS_16G -> 488
    [] OTHER -> 61

DocumentedGyro(gyro_fs) ==
  CASE gyro_fs = LSM6DSL_GY_FS_125_DPS  -> 4375
    [] gyro_fs = LSM6DSL_GY_FS_250_DPS  -> 8750
    [] gyro_fs = LSM6DSL_GY_FS_500_DPS  -> 17500
    [] gyro_fs = LSM6DSL_GY_FS_1000_DPS -> 35000
    [] gyro_fs = LSM6DSL_GY_FS_2000_DPS -> 70000
    [] OTHER -> 4375

\* C13: after a successful initialize the coefficients are those of the
\* table for the codes given, the narrowest range for an unrecognized code.
C13_SensitivityTable ==
  (drvPc = "ret" /\ drvArg.op = "init" /\ drvStatus = HAL_OK) =>
    /\ accel_sensitivity = DocumentedAccel(drvArg.accel_fs)
    /\ gyro_sensitivity = DocumentedGyro(drvArg.gyro_fs)

\* C14: a cycle that starts with the enabled flag clear goes straight to the
\* periodic wait and leaves the statistics, the consecutive-failure counter,
\* the working sample and the queue as they were; so does the wake-up.
C14_DisabledCycle ==
  [][ /\ (pc = "loop" /\ ucSensorEnabled = 0) =>
           /\ pc' = "delay"
           /\ UNCHANGED <<xSensorStats, retry_count, xSensorDataQueue,
                          sensor_data, sample_start_time, ucSensorEnabled>>
      /\ (pc = "delay" /\ pc' = "loop") =>
           UNCHANGED <<xSensorStats, retry_count, xSensorDataQueue,
                       sensor_data, sample_start_time, ucSensorEnabled>>
    ]_vars

\* C14 witness: a cycle that started while acquisition was stopped is in its
\* periodic wait without having sampled.
C14_Witness ==
  /\ pc = "delay"
  /\ ucSensorEnabled = 0
  /\ state = SENSOR_ACQ_STOPPED
  /\ sample_start_time < xLastWakeTime

\* The queued samples are in the order of their cycles, behind the sample
\* the consumer received last.
QueueOrdered ==
  /\ Len(xSensorDataQueue) <= QueueLength
  /\ \A i \in 1..(Len(xSensorDataQueue) - 1) :
       xSensorDataQueue[i].timestamp <= xSensorDataQueue[i + 1].timestamp
  /\ xSensorDataQueue # <<>> =>
       received.timestamp <= xSensorDataQueue[1].timestamp

\* C15: the queue never holds more than QueueLength samples; the task
\* queues the sample of the running cycle behind the waiting ones, whether
\* it found room at once or was woken by the consumer, so the queue holds
\* the samples in the order of their cycles, each once; and the consumer,
\* taking the oldest, receives them in that order, with timestamps that
\* never decrease.
C15_QueueOrder ==
  /\ []QueueOrdered
  /\ [][ /\ Len(xSensorDataQueue') > Len(xSensorDataQueue) =>
              /\ pc \in {"send", "send_wait"}
              /\ xSensorDataQueue' =
                   Append(xSensorDataQueue, Queued(sensor_data))
              /\ sensor_data.timestamp = sample_start_time
              /\ xSensorDataQueue # <<>> =>
                   sample_start_time >=
                     xSensorDataQueue[Len(xSensorDataQueue)].timestamp
              /\ sample_start_time >= received.timestamp
         /\ Len(xSensorDataQueue') < Len(xSensorDataQueue) =>
              /\ received' = Head(xSensorDataQueue)
              /\ xSensorDataQueue' = Tail(xSensorDataQueue)
              /\ received'.timestamp >= received.timestamp
       ]_vars

\* C15 witness: the consumer has received the samples of the first two
\* cycles, a sender blocked on the full queue was woken by the second
\* receive, and the queue is full again with the twelve cycles' samples in
\* order.
C15_Witness ==
  /\ Len(xSensorDataQueue) = QueueLength
  /\ received.timestamp = StartTick + SENSOR_SAMPLE_PERIOD_MS
  /\ xSensorDataQueue[1].timestamp = StartTick + 2 * SENSOR_SAMPLE_PERIOD_MS
  /\ xSensorDataQueue[QueueLength].timestamp =
       StartTick + (QueueLength + 1) * SENSOR_SAMPLE_PERIOD_MS
  /\ sendBlockedMs > 0
  /\ sendBlockedMs < QueueSendWaitMs

\* C16: the driver is inside a transaction exactly while it holds the mutex,
\* never together with the other bus user; the mutex is not the driver's
\* before, between or after the register accesses of a call; every
\* transaction is logged with the mutex held.
C16_BusArbitration ==
  /\ []((regPhase \in {"bus", "give"}) <=> (xI2CMutex = "drv"))
  /\ [](~(otherInBus /\ regPhase \in {"bus", "give"}))
  /\ [](drvPc \in {"idle", "ret", "settle"} => xI2CMutex # "drv")
  /\ [][Len(busLog') > Len(busLog) =>
          (xI2CMutex = "drv" /\ xI2CMutex' = "drv" /\ regPhase' = "give")]_vars

\* C16 witness: a read_sample whose burst read failed on the bus has
\* returned, the mutex is free, and it was free between the two reads.
C16_Witness ==
  /\ drvPc = "ret"
  /\ busLog = <<"status", "burst">>
  /\ busFailure = HAL_ERROR
  /\ xI2CMutex = "free"

\* C17: a register access that finds the mutex held waits for it no longer
\* than LSM6DSL_TIMEOUT_MS ticks; it gives up exactly that many ticks after
\* the call, with the mutex still held by the other user, and returns
\* HAL_TIMEOUT, with no transaction and no give; it takes the mutex only
\* when it is free; and a caller waiting for the mutex always gets out of
\* the wait.
C17_MutexTimeout ==
  /\ [](regPhase = "wait" =>
          (drvBlockedAt <= tick /\ tick - drvBlockedAt <= LSM6DSL_TIMEOUT_MS))
  /\ [][(regPhase = "wait" /\ regPhase' = "done") =>
          /\ tick' - drvBlockedAt = LSM6DSL_TIMEOUT_MS
          /\ xI2CMutex = "other"
          /\ regStatus' = HAL_TIMEOUT
          /\ UNCHANGED <<busLog, xI2CMutex, otherInBus>>]_vars
  /\ [][(regPhase = "wait" /\ regPhase' = "bus") =>
          /\ xI2CMutex = "free"
          /\ xI2CMutex' = "drv"
          /\ tick' - drvBlockedAt <= LSM6DSL_TIMEOUT_MS]_vars
  /\ (regPhase = "wait") ~> (regPhase \in {"bus", "done"})

\* C17 witness: the first register access of the first call has timed out
\* on the mutex, LSM6DSL_TIMEOUT_MS ticks after the call; the other user
\* still holds the mutex and nothing went over the bus.
C17_Witness ==
  /\ regPhase = "done"
  /\ regStatus = HAL_TIMEOUT
  /\ busLog = <<>>
  /\ xI2CMutex = "other"
  /\ drvCalls = 1
  /\ tick = StartTick + LSM6DSL_TIMEOUT_MS

\* C18: a driver function in which a bus operation failed returns the status
\* of that operation.
C18_StatusUnchanged ==
  (drvPc = "ret" /\ busFailure # "none") => drvStatus = busFailure

\* C19: when the identity read succeeds with a byte other than 0x6A,
\* LSM6DSL_Init returns a failure at once: nothing more goes over the bus and
\* the coefficients stay as they were.
C19_IdentityMismatch ==
  [][ (/\ drvArg.op = "init" /\ drvPc = "who_am_i" /\ regPhase = "done"
       /\ regStatus = HAL_OK /\ regOut # LSM6DSL_WHO_AM_I_VALUE
       /\ drvPc' # drvPc) =>
        /\ drvPc' = "ret"
        /\ drvStatus' # HAL_OK
        /\ busLog' = <<"who_am_i">>
        /\ UNCHANGED <<accel_sensitivity, gyro_sensitivity>>
    ]_vars

\* C19 witness: an initialize has failed on a wrong identity byte after an
\* earlier one had selected 4 g and 125 dps; only the identity register was
\* accessed and the coefficients are still those.
C19_Witness ==
  /\ drvPc = "ret"
  /\ drvArg.op = "init"
  /\ regStatus = HAL_OK
  /\ regOut = 0
  /\ drvStatus = HAL_ERROR
  /\ busLog = <<"who_am_i">>
  /\ selected = <<122, 4375>>
  /\ accel_sensitivity = 122
  /\ gyro_sensitivity = 4375

AcqPcs ==
  {"start", "loop", "imu_status", "imu_burst", "readers", "send", "send_wait",
   "update", "fail", "reinit", "init_whoami", "init_reset", "init_delay",
   "init_xl", "init_g", "init_bdu", "init_failed", "init_ok", "reinit_ok",
   "delay"}

C21_NotForwarded ==
  /\ [][(sensor_data'.motion /\ ~sensor_data.motion) =>
          (pc = "imu_burst" /\ imu_ready = 1 /\ status' = HAL_OK)]_vars
  /\ [](pc = "fail" => ~sensor_data.motion)
  /\ []((pc = "readers" /\ sensor_data.motion) => status = HAL_OK)

\* C21 witness: after an earlier failed cycle, a cycle without data ready
\* has reached the enqueue with no motion data in its sample.
C21_Witness ==
  /\ pc = "send"
  /\ ~sensor_data.motion
  /\ sensor_data.data_valid = 1
  /\ xSensorStats.error_count >= 1

\* C24: a cycle enqueues its sample if and only if its three reads returned
\* HAL_OK, the enqueued copy has data_valid = 1 and the cycle-start
\* timestamp, and a cycle with a failed read leaves the queue, total_samples
\* and last_sample_time alone.
C24_EnqueueIffAllOk ==
  [][/\ (pc \in {"send", "send_wait"} /\ pc' = "update") =>
          xSensorDataQueue' = Append(xSensorDataQueue, Queued(sensor_data))
     /\ Len(xSensorDataQueue') > Len(xSensorDataQueue) =>
          /\ pc \in {"send", "send_wait"}
          /\ status = HAL_OK
          /\ xSensorDataQueue' =
               Append(xSensorDataQueue,
                      [timestamp |-> sample_start_time, data_valid |-> 1])
     /\ (status # HAL_OK /\ pc \notin {"loop", "imu_status", "imu_burst"}) =>
          /\ Len(xSensorDataQueue') <= Len(xSensorDataQueue)
          /\ xSensorStats'.total_samples = xSensorStats.total_samples
          /\ xSensorStats'.last_sample_time = xSensorStats.last_sample_time
    ]_vars

\* C25: a motion read that returns HAL_OK without data ready changes neither
\* counter and leads to the success branch, which clears the
\* consecutive-failure counter, leaves error_count and the state alone and
\* goes on to the enqueue; the failure branch is entered only with a status
\* other than HAL_OK.
C25_NotReadyIsSuccess ==
  /\ [][/\ (pc = "imu_status" /\ pc' # pc /\ status' = HAL_OK
             /\ imu_ready' = 0) =>
             /\ pc' = "readers"
             /\ ~sensor_data'.motion
             /\ UNCHANGED <<retry_count, xSensorStats>>
        /\ (pc = "readers" /\ ~sensor_data.motion /\ pc' # pc) =>
             /\ pc' = "send"
             /\ retry_count' = 0
             /\ failRun' = 0
             /\ sensor_data'.data_valid = 1
             /\ UNCHANGED xSensorStats
       ]_vars
  /\ [](pc = "fail" => status # HAL_OK)

\* C25 witness: after two failed cycles a cycle without data ready has
\* cleared the counter and reached the enqueue.
C25_Witness ==
  /\ pc = "send"
  /\ ~sensor_data.motion
  /\ retry_count = 0
  /\ xSensorStats.error_count = 2
  /\ xSensorStats.total_samples = 0
  /\ failRun = 0

\* The readers of one cycle in the order of lines 318-327.
ReaderOrder == <<"motion", "pressure", "humidity">>

\* C27: the readers called in a cycle are called in the order motion,
\* pressure, humidity; a cycle whose motion read failed has called the
\* motion reader only, and a cycle that reaches the enqueue has called all
\* three.
C27_ReaderSequence ==
  /\ \E n \in 0..Len(ReaderOrder) : readersCalled = SubSeq(ReaderOrder, 1, n)
  /\ pc \in {"fail", "reinit"} => readersCalled = <<"motion">>
  /\ pc \in {"send", "send_wait", "update"} => readersCalled = ReaderOrder

\* C27 witness: the motion read of the third cycle has failed after two
\* cycles; only the motion reader has been called in it.
C27_Witness ==
  /\ pc = "fail"
  /\ readersCalled = <<"motion">>
  /\ status = HAL_TIMEOUT
  /\ xSensorStats.total_samples = 2

\* C28: a failed cycle adds one to error_count and one to the
\* consecutive-failure counter (which the threshold clears), whether the
\* read returned HAL_TIMEOUT or HAL_ERROR; and a failed initialization adds
\* one to the consecutive-failure counter as a failed cycle does.
C28_FailuresCounted ==
  [][/\ (pc = "fail" /\ pc' # pc) =>
          /\ status \in {HAL_TIMEOUT, HAL_ERROR}
          /\ xSensorStats'.error_count = xSensorStats.error_count + 1
          /\ retry_count' = IF retry_count + 1 >= SENSOR_MAX_RETRY_COUNT
                              THEN 0 ELSE retry_count + 1
     /\ (pc = "init_failed" /\ pc' # pc) => retry_count' = retry_count + 1
    ]_vars

\* C29: a step of SensorAcq_ResetStats leaves total_samples, error_count
\* and sample_rate at zero and does not change the lifecycle state,
\* last_sample_time, the enabled flag or the consecutive-failure counter.
C29_ResetFrame ==
  [][(/\ apiPc = "idle"
      /\ lastWrite' = Wrote("reset", TRUE)
      /\ UNCHANGED <<pc, apiPc, xSensorDataQueue>>) =>
        /\ xSensorStats'.total_samples = 0
        /\ xSensorStats'.error_count = 0
        /\ xSensorStats'.sample_rate = <<0, 1>>
        /\ xSensorStats'.state = xSensorStats.state
        /\ xSensorStats'.last_sample_time = xSensorStats.last_sample_time
        /\ UNCHANGED <<ucSensorEnabled, retry_count>>
    ]_vars

\* C29 witness: the statistics were reset after a successful cycle and a
\* failed one; the time of the last sample and the failure counter remain.
C29_Witness ==
  /\ lastWrite = Wrote("reset", TRUE)
  /\ xSensorStats.total_samples = 0
  /\ xSensorStats.error_count = 0
  /\ xSensorStats.last_sample_time = StartTick
  /\ xSensorStats.state = SENSOR_ACQ_RUNNING
  /\ retry_count = 1
  /\ ucSensorEnabled = 1

\* C30: the update of a successful cycle adds one to total_samples and
\* records the cycle-start timestamp; the rate is recomputed only when at
\* least 1000 ms have passed since the window was closed, as count * 1000 /
\* duration, and the window counter is then 0; and when every cycle so far
\* has succeeded at the 10 ms period, a recomputed rate, the first one
\* after the start of the task too, is 100.
C30_StatsUpdate ==
  [][(pc = "update" /\ pc' # pc) =>
       LET dt == sample_start_time - last_stats_update
           cnt1 == sample_count_in_period + 1
       IN  /\ xSensorStats'.total_samples = xSensorStats.total_samples + 1
           /\ xSensorStats'.last_sample_time = sample_start_time
           /\ IF dt >= StatsWindowMs
                THEN /\ xSensorStats'.sample_rate = <<cnt1 * 1000, dt>>
                     /\ sample_count_in_period' = 0
                     /\ last_stats_update' = sample_start_time
                ELSE /\ xSensorStats'.sample_rate = xSensorStats.sample_rate
                     /\ sample_count_in_period' = cnt1
                     /\ last_stats_update' = last_stats_update
           /\ (/\ dt >= StatsWindowMs
               /\ xSensorStats.error_count = 0
               /\ xSensorStats.total_samples = cycles - 1
               /\ sample_start_time =
                    StartTick + SENSOR_SAMPLE_PERIOD_MS * (cycles - 1))
                => /\ cnt1 * 1000 = SENSOR_SAMPLE_RATE_HZ * dt
                   /\ xSensorStats'.sample_rate[1] =
                        SENSOR_SAMPLE_RATE_HZ * xSensorStats'.sample_rate[2]
    ]_vars

\* C30 witness: two hundred cycles succeeded on their period; the second
\* window has just been closed, at tick 2000, with a rate of 100 as the
\* first, and the window counter is 0.
C30_Witness ==
  /\ pc = "delay"
  /\ cycles = 2 * SENSOR_SAMPLE_RATE_HZ
  /\ xSensorStats.total_samples = 2 * SENSOR_SAMPLE_RATE_HZ
  /\ xSensorStats.error_count = 0
  /\ xSensorStats.sample_rate = <<SENSOR_SAMPLE_RATE_HZ * 1000, StatsWindowMs>>
  /\ last_stats_update = 2 * StatsWindowMs
  /\ xSensorStats.last_sample_time = 2 * StatsWindowMs
  /\ sample_count_in_period = 0

\* C22: after a successful LSM6DSL_ReadData with data ready, the decoded
\* temperature is 25 + r/256 degrees C (here in 1/256 degree), r being the
\* signed 16-bit value with low byte raw_data[0] and high byte raw_data[1];
\* bytes 0x00, 0x00 give 25.0 and r = 256 gives 26.0.
C22_TemperatureDecode ==
  (drvArg.op = "read_data" /\ drvPc = "ret" /\ drvStatus = HAL_OK
     /\ data_ready = 1) =>
    LET w == raw_data[2] * 256 + raw_data[1]
        r == IF w < 32768 THEN w ELSE w - 65536
    IN  /\ imu_data.temperature = 25 * 256 + r
        /\ (raw_data[1] = 0 /\ raw_data[2] = 0) =>
             imu_data.temperature = 25 * 256
        /\ r = 256 => imu_data.temperature = 26 * 256

\* C22 witness: a burst whose temperature word is 256 has been decoded to
\* 26.0 degrees C.
C22_Witness ==
  /\ drvArg.op = "read_data"
  /\ drvPc = "ret"
  /\ drvStatus = HAL_OK
  /\ raw_data[1] = 0
  /\ raw_data[2] = 1
  /\ imu_data.temperature = 26 * 256

\* C23: after a successful LSM6DSL_ReadData with data ready, each decoded
\* acceleration is raw * accel_sensitivity * 9.80665 / 1000 m/s^2 (here in
\* um/s^2, truncated, with 9.80665 = 9 + 16133/20000), raw being the signed
\* word of the axis and accel_sensitivity the cached coefficient; a raw
\* value of 1000 at 0.061 mg/LSB gives 0.598205 m/s^2.
C23_AccelConversion ==
  (drvArg.op = "read_data" /\ drvPc = "ret" /\ drvStatus = HAL_OK
     /\ data_ready = 1) =>
    \A i \in 1..3 :
      LET w == raw_data[2 * i + 8] * 256 + raw_data[2 * i + 7]
          r == IF w < 32768 THEN w ELSE w - 65536
          p == (IF r < 0 THEN 0 - r ELSE r) * accel_sensitivity
          e == 9 * p + 16133 * (p \div 20000) + ((p % 20000) * 16133) \div 20000
      IN  /\ imu_data.accel[i] = IF r < 0 THEN 0 - e ELSE e
          /\ (r = 1000 /\ accel_sensitivity = 61) => imu_data.accel[i] = 598205

\* C23 witness: an X-axis word of 1000 has been decoded at the 2 g range.
C23_Witness ==
  /\ drvArg.op = "read_data"
  /\ drvPc = "ret"
  /\ drvStatus = HAL_OK
  /\ raw_data[9] = 232
  /\ raw_data[10] = 3
  /\ accel_sensitivity = UpdateSensitivityAccel(LSM6DSL_XL_FS_2G)
  /\ imu_data.accel[1] = 598205

\* The bus transfers of a complete LSM6DSL_Init, in the order of lines 45-78.
InitOrder == <<"who_am_i", "reset", "xl", "g", "bdu">>

\* C26: the transfers of LSM6DSL_Init are a prefix of identity read, soft
\* reset, CTRL1_XL, CTRL2_G, CTRL3_C; the settle delay begins at the tick
\* the successful reset returned and the function goes on to the CTRL1_XL
\* write only from the delay, ResetSettleMs ticks later and with nothing
\* more sent over the bus; a failed step returns at once with a status
\* other than HAL_OK; and the cached coefficients change only in the step
\* that follows the successful CTRL3_C write, after all five transfers.
C26_InitOrder ==
  /\ [](drvArg.op = "init" =>
          \E n \in 0..Len(InitOrder) : busLog = SubSeq(InitOrder, 1, n))
  /\ []((drvArg.op = "init" /\ drvPc = "ret" /\ drvStatus = HAL_OK) =>
          busLog = InitOrder)
  /\ [](drvPc = "settle" =>
          (drvBlockedAt <= tick /\ tick <= drvBlockedAt + ResetSettleMs))
  /\ [][/\ (drvPc' = "settle" /\ drvPc # "settle") =>
             /\ drvPc = "reset"
             /\ regStatus = HAL_OK
             /\ busLog = SubSeq(InitOrder, 1, 2)
             /\ drvBlockedAt' = tick
             /\ tick' = tick
        /\ (drvPc' = "xl" /\ drvPc # "xl") =>
             /\ drvPc = "settle"
             /\ tick' = drvBlockedAt + ResetSettleMs
             /\ busLog' = busLog
        /\ (drvPc = "settle" /\ drvPc' # drvPc) => drvPc' = "xl"
        /\ (/\ drvArg.op = "init" /\ regPhase = "done" /\ drvPc' # drvPc
            /\ (regStatus # HAL_OK
                  \/ (drvPc = "who_am_i" /\ regOut # LSM6DSL_WHO_AM_I_VALUE))) =>
             /\ drvPc' = "ret"
             /\ drvStatus' # HAL_OK
             /\ busLog' = busLog
        /\ (\/ accel_sensitivity' # accel_sensitivity
            \/ gyro_sensitivity' # gyro_sensitivity) =>
             /\ drvArg.op = "init"
             /\ drvPc = "bdu"
             /\ regStatus = HAL_OK
             /\ busLog = InitOrder
             /\ drvPc' = "ret"
             /\ drvStatus' = HAL_OK
       ]_vars

\* C26 witness: an initialization for 16 g, the first call, slept the
\* settle delay and stopped at the failed CTRL2_G write; CTRL3_C was not
\* written and the coefficient is still the 2 g one.
C26_Witness ==
  /\ drvArg.op = "init"
  /\ drvArg.accel_fs = LSM6DSL_XL_FS_16G
  /\ drvPc = "ret"
  /\ drvStatus = HAL_ERROR
  /\ busLog = SubSeq(InitOrder, 1, 4)
  /\ accel_sensitivity = AccelSensitivityInitial
  /\ selected = <<>>
  /\ drvCalls = 1
  /\ tick = StartTick + ResetSettleMs

\* C31: once the task has started, the deadline of its periodic wait is the
\* start tick plus one period for each completed loop iteration, whatever
\* the iterations did and however long they took; each wake-up adds exactly
\* one period to it and nothing else changes it.
C31_NoDrift ==
  /\ [](pc # "start" =>
          xLastWakeTime = StartTick + SENSOR_SAMPLE_PERIOD_MS * (cycles - 1))
  /\ [][(pc # "start" /\ xLastWakeTime' # xLastWakeTime) =>
          /\ pc = "delay"
          /\ pc' = "loop"
          /\ xLastWakeTime' = xLastWakeTime + SENSOR_SAMPLE_PERIOD_MS
       ]_vars

\* C31 witness: the third wake-up, after a cycle that waited inside a failed
\* reinitialization and is now disabled; the tick has run on, the deadline
\* is the third multiple of the period.
C31_Witness ==
  /\ pc = "loop"
  /\ cycles = 4
  /\ xLastWakeTime = StartTick + 3 * SENSOR_SAMPLE_PERIOD_MS
  /\ ucSensorEnabled = 0
  /\ reinitFailed

\* C32: after a successful LSM6DSL_ReadData with data ready, the temperature
\* comes from bytes 0,1 of the burst, the angular rates X,Y,Z from bytes
\* 2,3 / 4,5 / 6,7 and the accelerations X,Y,Z from bytes 8,9 / 10,11 /
\* 12,13, each pair being low byte then high byte of a two's-complement
\* 16-bit value: 0xFF,0xFF is -1 and 0x00,0x80 is -32768.
C32_BurstLayout ==
  (drvArg.op = "read_data" /\ drvPc = "ret" /\ drvStatus = HAL_OK
     /\ data_ready = 1) =>
    LET B(k) == raw_data[k + 1]
        S(lo, hi) == IF hi < 128 THEN hi * 256 + lo
                                 ELSE hi * 256 + lo - 65536
    IN  /\ imu_data.temperature = 25 * 256 + S(B(0), B(1))
        /\ \A i \in 1..3 :
             /\ imu_data.gyro[i] =
                  Gyro(S(B(2 * i), B(2 * i + 1)), gyro_sensitivity)
             /\ imu_data.accel[i] =
                  Accel(S(B(2 * i + 6), B(2 * i + 7)), accel_sensitivity)
        /\ (B(0) = 255 /\ B(1) = 255) => imu_data.temperature = 25 * 256 - 1
        /\ (B(0) = 0 /\ B(1) = 128) =>
             imu_data.temperature = 25 * 256 - 32768

\* C32 witness: a burst beginning 0x00, 0x80 has been decoded; its
\* temperature word is -32768 and its seven words are all different.
C32_Witness ==
  /\ drvArg.op = "read_data"
  /\ drvPc = "ret"
  /\ drvStatus = HAL_OK
  /\ raw_data[1] = 0
  /\ raw_data[2] = 128
  /\ imu_data.temperature = 25 * 256 - 32768
  /\ imu_data.gyro[1] # imu_data.gyro[2]
  /\ imu_data.accel[1] # imu_data.accel[3]

\* C34: while the task is in its periodic wait, and when it starts the next
\* iteration, the consecutive-failure counter is below the threshold of 3
\* (0, 1 or 2); in every state it fits its 8 bits.
C34_CounterBounded ==
  /\ pc \in {"delay", "loop"} => retry_count \in 0..(SENSOR_MAX_RETRY_COUNT - 1)
  /\ retry_count \in 0..MaxByte

\* C34 witness: the third consecutive failure cleared the counter, the
\* reinitialization failed, and the task is in its periodic wait.
C34_Witness ==
  /\ pc = "delay"
  /\ retry_count = 0
  /\ reinitFailed
  /\ state = SENSOR_ACQ_ERROR
  /\ cycles = 3

\* C37 as stated: total_samples grows only in a cycle whose sample was
\* enqueued; the update after an enqueue that failed on the full queue
\* leaves it as it was.
C37_CountsEnqueued ==
  [][/\ xSensorStats'.total_samples > xSensorStats.total_samples =>
          (pc = "update" /\ sendBlockedMs < QueueSendWaitMs)
     /\ (pc = "update" /\ pc' # pc /\ sendBlockedMs = QueueSendWaitMs) =>
          xSensorStats'.total_samples = xSensorStats.total_samples
    ]_vars

\* C37 amended: total_samples counts the cycles whose reads all returned
\* HAL_OK, enqueued or not: the update of every such cycle adds one to it,
\* also after an enqueue that failed on the full queue, and any other change
\* of it is a clearing to 0.
C37_CountsSuccessfulCycles ==
  [][/\ (pc = "update" /\ pc' # pc) =>
          /\ status = HAL_OK
          /\ xSensorStats'.total_samples = xSensorStats.total_samples + 1
     /\ (pc # "update" /\ xSensorStats'.total_samples
                            # xSensorStats.total_samples) =>
          xSensorStats'.total_samples = 0
    ]_vars

\* C37 witness: eleven cycles succeeded with no consumer; ten samples are
\* in the queue, the eleventh enqueue failed and was counted all the same.
C37_Witness ==
  /\ pc = "delay"
  /\ Len(xSensorDataQueue) = QueueLength
  /\ sendBlockedMs = QueueSendWaitMs
  /\ xSensorStats.total_samples = QueueLength + 1
  /\ xSensorStats.error_count = 1

\* C36: once the driver call of SensorAcq_Enable has failed, no step of the
\* call changes the enabled flag or the lifecycle state, whether the call
\* was to enable or to disable; the failed status is what it returns.
C36_FailedEnableNoChange ==
  [][(apiStatus # HAL_OK /\ apiPc' # apiPc) =>
        /\ ucSensorEnabled' = ucSensorEnabled
        /\ xSensorStats'.state = xSensorStats.state
        /\ (apiPc' # "idle" => apiStatus' = apiStatus)
    ]_vars

\* C35: while the task is in its periodic wait and no call of
\* SensorAcq_Enable is in progress, the lifecycle state is Stopped exactly
\* when the enabled flag is 0.
C35_StoppedIffDisabled ==
  (pc = "delay" /\ apiPc = "idle") =>
    ((state = SENSOR_ACQ_STOPPED) <=> (ucSensorEnabled = 0))

\* C38: when a driver call that wrote the mode registers returns HAL_OK and
\* left the device powered, the cached sensitivity coefficients are the
\* ones of the full-scale codes that call wrote to CTRL1_XL and CTRL2_G.
C38_SensitivityMatchesWritten ==
  (drvPc = "ret" /\ drvStatus = HAL_OK) =>
    \A i \in 1..Len(written) :
      written[i].odr # "down" =>
        IF written[i].reg = "CTRL1_XL"
          THEN accel_sensitivity = UpdateSensitivityAccel(written[i].fs)
          ELSE gyro_sensitivity = UpdateSensitivityGyro(written[i].fs)

\* C33: when the other readers have run, the sample's temperature is the
\* motion sensor's if the motion read was data-ready and decoded a nonzero
\* temperature, and otherwise a default of the humidity reader; a valid
\* sample is never enqueued with temperature 0.
C33_TemperatureSource ==
  /\ [][(pc = "readers" /\ pc' = "send") =>
          IF sensor_data.motion /\ imu_temperature # 0
            THEN sensor_data'.temperature = imu_temperature
            ELSE sensor_data'.temperature \in
                   {HumidityDefault(rnd) : rnd \in RandValues}]_vars
  /\ [][(/\ xSensorDataQueue' = Append(xSensorDataQueue, Queued(sensor_data))
         /\ sensor_data.data_valid = 1) =>
          sensor_data.temperature # 0]_vars

\* A data-ready motion read decoded exactly 0.0 and the valid sample carries
\* the humidity reader's default.
C33_Witness ==
  /\ pc = "send"
  /\ sensor_data.motion
  /\ sensor_data.data_valid = 1
  /\ sensor_data.temperature = HumidityDefault(50)

\* C39: SensorAcq_UpdateStats recomputes the rate exactly when the ticks
\* elapsed since last_stats_update, taken modulo 2^32, are at least 1000;
\* the divisor is then that number of elapsed ticks, also when the tick
\* counter has wrapped around in between, and so is at least 1000 and
\* never 0.
C39_WindowAcrossWrap ==
  statsCall.called =>
    /\ statsCall.recomputed <=> WindowElapsed(statsCall.elapsed)
    /\ statsCall.recomputed =>
         /\ statsCall.sample_rate[2] = statsCall.elapsed
         /\ statsCall.sample_rate[2] # Zero32
         /\ (statsCall.sample_rate[2].hi > 0
               \/ statsCall.sample_rate[2].lo >= StatsWindowMs)
         /\ statsCall.last_stats_update = statsCall.sample_time
         /\ statsCall.sample_count_in_period = 0

\* The rate was recomputed over a window in which the tick counter wrapped
\* around: the sample time is the smaller number.
C39_Witness ==
  /\ statsCall.called
  /\ statsCall.recomputed
  /\ statsCall.sample_time.hi = 0
  /\ statsCall.sample_time.lo = 999
  /\ statsCall.elapsed = [hi |-> 0, lo |-> 1000]

====
